---- MODULE Spec2Model ----
(***************************************************************************)
(* State-machine model of the worker permit manager ("market") of          *)
(* src/src/tbb/market.cpp: the per-priority client lists, the demand       *)
(* accounting, the allotment engine, the mandatory-concurrency override,   *)
(* try_destroy_arena and the reference-counted lifetime of the singleton.  *)
(*                                                                         *)
(* Threads run the public operations.  Every critical section is one step, *)
(* from the acquisition of its mutex to the release; the reads made        *)
(* outside a lock and every call of the dispatcher's                       *)
(* adjust_job_count_estimate are steps of their own.                       *)
(***************************************************************************)
EXTENDS Integers, Sequences, FiniteSets, TLC

\* ------------------------------------------------------------------ bounds

\* Largest demand an arena asks for (arena::num_workers_requested()).
MaxDemand == 1
\* Largest soft limit asked of set_active_num_workers.
MaxSoftLimit == 2
\* adjust_demand calls per client that take an epoch.
MaxEpoch == 2
\* Value of my_arenas_aba_epoch at which no more clients are created.
MaxAbaEpoch == 1
\* The same where the address of a deleted client is reused.
MaxReuseEpoch == 2
\* Largest value found in the uninitialized my_num_workers_allotted.
MaxGarbage == 1
\* Market instances created by global_market.
MaxInstances == 2
\* References global_market hands out on one instance.
MaxRefCount == 3
\* num_priority_levels, the number P of priority lists.
num_priority_levels == 2
\* Largest governor::default_num_threads().
MaxDefaultThreads == 2
\* Largest market::app_parallelism_limit().
MaxAppLimit == 1
\* Largest workers_requested passed to global_market.
MaxRequested == 1

\* The market guarantees that at least 256 threads might be created.
MinHardLimit == 256
\* 4P below this default_num_threads, 2P above.
LargeThreadNumber == 128
\* skip_soft_limit_warning, ~0U in the source: the largest value of the word,
\* larger than any valid workers_requested (here the largest integer of TLC).
skip_soft_limit_warning == 2147483647

Threads == {"t1", "t2"}
Clients == {"a1", "a2"}
Levels == 0 .. (num_priority_levels - 1)
NoThread == "none"
NoClient == "null"

Min(a, b) == IF a < b THEN a ELSE b
Max(a, b) == IF a > b THEN a ELSE b

RECURSIVE SumOver(_, _)
SumOver(f, S) ==
    IF S = {} THEN 0
    ELSE LET x == CHOOSE y \in S : TRUE IN f[x] + SumOver(f, S \ {x})

SeqToSet(s) == {s[i] : i \in 1 .. Len(s)}

\* ------------------------------------------------------------------- state

VARIABLES
    \* --- the singleton and its lifetime
    theMarketMutex,             \* the holder, or NoThread
    theMarket,                  \* 0 = nullptr, else the id of the live instance
    instances,                  \* number of instances created so far
    my_ref_count,
    my_public_ref_count,
    close_requested,            \* instances whose request_close_connection ran
    my_join_workers,            \* instance -> my_join_workers at close
    default_num_threads,        \* governor::default_num_threads() of the process
    my_num_workers_hard_limit,  \* thread_dispatcher::my_num_workers_hard_limit
    my_workers_soft_limit_to_report,
    warnings,                   \* "request ignored" warnings since the last store
    public_handles,             \* public references handed out, not yet released
    private_handles,            \* private references handed out, not yet released
    \* --- the market's accounting (guarded by my_arenas_list_mutex)
    my_arenas_list_mutex,       \* the holder, or NoThread
    my_num_workers_soft_limit,
    my_total_demand,
    my_priority_level_demand,   \* level -> demand
    my_num_workers_requested,
    my_mandatory_num_requested,
    my_arenas,                  \* level -> sequence of clients, head first
    my_arenas_aba_epoch,
    \* --- the client records (tbb_permit_manager_client), by address
    client_state,               \* "free" | "listed" | "detached"
    m_global_concurrency_mode,
    my_num_workers_allotted,
    my_is_top_priority,
    my_adjust_demand_target_epoch,
    my_adjust_demand_current_epoch,
    \* --- the arena behind each client (read-only view of the manager)
    arena_priority_level,
    arena_aba_epoch,
    arena_num_workers_requested,
    \* --- the dispatcher
    job_count_estimate,         \* sum of the deltas of adjust_job_count_estimate
    tickets,                    \* tickets inserted and not removed
    estimate_under_lock,        \* a call was made by a thread holding a mutex
    \* --- the threads
    pc,
    t_client,                   \* the client argument
    t_delta,                    \* the delta to forward
    t_epoch,                    \* target_epoch / aba_epoch argument
    t_arg,                      \* soft_limit / priority_level argument
    t_ret,                      \* the last return value
    t_this,                     \* the market instance the thread works on (m / this)
    t_public,                   \* release: is_public
    t_blocking,                 \* release: blocking_terminate
    t_caller,                   \* the operation that called the running one
    t_requested,                \* global_market: workers_requested
    t_report,                   \* add_ref_unsafe: soft_limit_to_report
    assert_failed,              \* the __TBB_ASSERTs that have failed
    \* --- task-group state propagation
    the_context_state_propagation_mutex,  \* the holder, or NoThread
    the_context_state_propagation_epoch,
    my_masters,                 \* the list of external threads, head first
    my_workers,                 \* slot -> the worker's thread_data, or NoData
    my_first_unused_worker_idx, \* thread_dispatcher::my_first_unused_worker_idx
    src_state,                  \* src.*mptr_state
    src_may_have_children,      \* src.my_may_have_children == may_have_children
    td_state,                   \* thread_data -> the last state propagated to it
    pts,                        \* the locals of propagate_task_group_state
    \* --- the limits of a new instance
    calc_in,                    \* workers_requested, app_parallelism_limit(),
                                \* default_num_threads() of a computation
    calc_out                    \* workers_hard_limit, workers_soft_limit computed

propVars == <<the_context_state_propagation_mutex,
              the_context_state_propagation_epoch, my_masters, my_workers,
              my_first_unused_worker_idx, src_state, src_may_have_children,
              td_state, pts>>
singletonVars == <<theMarketMutex, theMarket, instances, my_ref_count,
                   my_public_ref_count, close_requested, my_join_workers,
                   default_num_threads, my_num_workers_hard_limit,
                   my_workers_soft_limit_to_report, warnings, public_handles,
                   private_handles>>
calcVars == <<calc_in, calc_out>>
lifeVars == <<propVars, calcVars, singletonVars>>
marketVars == <<my_num_workers_soft_limit, my_total_demand,
                my_priority_level_demand, my_num_workers_requested,
                my_mandatory_num_requested, my_arenas, my_arenas_aba_epoch>>
clientVars == <<client_state, m_global_concurrency_mode, my_num_workers_allotted,
                my_is_top_priority, my_adjust_demand_target_epoch,
                my_adjust_demand_current_epoch>>
arenaVars == <<arena_priority_level, arena_aba_epoch, arena_num_workers_requested>>
dispVars == <<job_count_estimate, tickets, estimate_under_lock>>
threadVars == <<pc, t_client, t_delta, t_epoch, t_arg, t_ret, t_this,
                t_public, t_blocking, t_caller, t_requested, t_report>>

\* What the propagation of a task-group state leaves alone.
nonPropVars == <<calcVars, singletonVars, my_arenas_list_mutex, marketVars, clientVars,
                 arenaVars, dispVars, assert_failed>>
vars == <<lifeVars, my_arenas_list_mutex, marketVars, clientVars, arenaVars,
          dispVars, threadVars, assert_failed>>

\* ------------------------------------------- the state under the list mutex

\* The fields a critical section of my_arenas_list_mutex reads and writes,
\* gathered so that the section's functions compose as in the source.
Cur ==
    [soft    |-> my_num_workers_soft_limit,
     total   |-> my_total_demand,
     pdem    |-> my_priority_level_demand,
     req     |-> my_num_workers_requested,
     mand    |-> my_mandatory_num_requested,
     arenas  |-> my_arenas,
     aba     |-> my_arenas_aba_epoch,
     cstate  |-> client_state,
     gcm     |-> m_global_concurrency_mode,
     allot   |-> my_num_workers_allotted,
     top     |-> my_is_top_priority,
     dem     |-> arena_num_workers_requested,
     tickets |-> tickets,
     failed  |-> assert_failed]

Commit(m) ==
    /\ my_num_workers_soft_limit' = m.soft
    /\ my_total_demand' = m.total
    /\ my_priority_level_demand' = m.pdem
    /\ my_num_workers_requested' = m.req
    /\ my_mandatory_num_requested' = m.mand
    /\ my_arenas' = m.arenas
    /\ my_arenas_aba_epoch' = m.aba
    /\ client_state' = m.cstate
    /\ m_global_concurrency_mode' = m.gcm
    /\ my_num_workers_allotted' = m.allot
    /\ my_is_top_priority' = m.top
    /\ arena_num_workers_requested' = m.dem
    /\ tickets' = m.tickets
    /\ assert_failed' = m.failed

\* __TBB_ASSERT(cond, ...): a failed assertion is recorded and execution goes on.
TbbAssert(m, cond, name) ==
    IF cond THEN m ELSE [m EXCEPT !.failed = @ \cup {name}]

\* ------------------------------------------------------ allotment engine

\* The body of the inner loop of update_allotment for one client: st is the
\* loop state (assigned, carry, max_priority_level) with the market record m.
AllotClient(st, a, list_idx, assigned_per_priority, max_workers) ==
    IF st.m.dem[a] = 0 THEN st
    ELSE
      LET max_priority_level ==
              IF st.max_priority_level = num_priority_levels
              THEN list_idx ELSE st.max_priority_level
          tmp == st.m.dem[a] * assigned_per_priority + st.carry
          mandatory_path == st.m.soft = 0
          allotted ==
              IF mandatory_path
              THEN (IF st.m.gcm[a] /\ st.assigned < max_workers THEN 1 ELSE 0)
              ELSE tmp \div st.m.pdem[list_idx]
          carry ==
              IF mandatory_path THEN st.carry ELSE tmp % st.m.pdem[list_idx]
          m1 == IF mandatory_path
                THEN TbbAssert(st.m, max_workers \in {0, 1}, "allot_mandatory_budget")
                ELSE TbbAssert(st.m, allotted <= st.m.dem[a], "allotted_le_requested")
      IN  [m |-> [m1 EXCEPT !.allot[a] = allotted,
                            !.top[a] = (list_idx = max_priority_level)],
           assigned |-> st.assigned + allotted,
           carry |-> carry,
           max_priority_level |-> max_priority_level]

RECURSIVE AllotList(_, _, _, _, _, _)
AllotList(st, list, i, list_idx, assigned_per_priority, max_workers) ==
    IF i > Len(list) THEN st
    ELSE AllotList(AllotClient(st, list[i], list_idx, assigned_per_priority, max_workers),
                   list, i + 1, list_idx, assigned_per_priority, max_workers)

RECURSIVE AllotLevels(_, _, _, _)
AllotLevels(st, list_idx, unassigned_workers, max_workers) ==
    IF list_idx >= num_priority_levels THEN st
    ELSE
      LET assigned_per_priority == Min(st.m.pdem[list_idx], unassigned_workers)
      IN  AllotLevels(AllotList(st, st.m.arenas[list_idx], 1, list_idx,
                                assigned_per_priority, max_workers),
                      list_idx + 1, unassigned_workers - assigned_per_priority,
                      max_workers)

\* int market::update_allotment(arena_list_type*, int workers_demand, int max_workers)
update_allotment3(m, workers_demand, max_workers_arg) ==
    LET m0 == TbbAssert(m, workers_demand > 0, "workers_demand_positive")
        max_workers == Min(workers_demand, max_workers_arg)
        st == AllotLevels([m |-> m0, assigned |-> 0, carry |-> 0,
                           max_priority_level |-> num_priority_levels],
                          0, max_workers, max_workers)
    IN  TbbAssert(st.m, 0 <= st.assigned /\ st.assigned <= max_workers,
                  "assigned_in_budget")

\* void market::update_allotment(unsigned effective_soft_limit): runs the engine
\* when there is demand (the engine asserts workers_demand > 0).
update_allotment(m, effective_soft_limit) ==
    IF m.total > 0 THEN update_allotment3(m, m.total, effective_soft_limit) ELSE m

\* ------------------------------------------------------- demand tracker

\* A variant that returns the new request, not its change.
update_workers_request_not_relative(m) ==
    LET m1 == [m EXCEPT !.req = Min(m.total, m.soft)]
        m2 == IF m1.mand > 0 THEN [m1 EXCEPT !.req = 1] ELSE m1
        m3 == update_allotment(m2, m2.req)
    IN  [m |-> m3, delta |-> m3.req]

\* int market::update_workers_request(): the new record and the returned delta.
update_workers_request(m) ==
    LET old_request == m.req
        m1 == [m EXCEPT !.req = Min(m.total, m.soft)]
        m2 == IF m1.mand > 0
              THEN [TbbAssert(m1, m1.soft = 0, "uwr_soft_zero") EXCEPT !.req = 1]
              ELSE m1
        m3 == update_allotment(m2, m2.req)
    IN  [m |-> m3, delta |-> m3.req - old_request]

\* ------------------------------------------------ mandatory concurrency

enable_mandatory_concurrency_impl(m, a) ==
    LET m1 == TbbAssert(m, ~m.gcm[a], "enable_impl_flag_clear")
        m2 == TbbAssert(m1, m1.soft = 0, "enable_impl_soft_zero")
    IN  [m2 EXCEPT !.gcm[a] = TRUE, !.mand = @ + 1]

disable_mandatory_concurrency_impl(m, a) ==
    LET m1 == TbbAssert(m, m.gcm[a], "disable_impl_flag_set")
        m2 == TbbAssert(m1, m1.mand > 0, "disable_impl_count_positive")
    IN  [m2 EXCEPT !.gcm[a] = FALSE, !.mand = @ - 1]


\* ------------------------------------------------------------- threads

\* Threads inside an operation on client a hold a reference to its arena.
InFlight(a) == {t \in Threads : t_client[t] = a}

\* arena::references() as try_destroy_arena reads it: the threads inside an
\* operation on the client, and other_references held outside the model.
references(a, other_references) == other_references + Cardinality(InFlight(a))

Listed == {a \in Clients : client_state[a] = "listed"}

\* The thread goes to label l keeping its locals.
Goto(t, l) == pc' = [pc EXCEPT ![t] = l]

\* The operation of thread t returns r to the application.
Return(t, r) ==
    /\ pc' = [pc EXCEPT ![t] = "idle"]
    /\ t_client' = [t_client EXCEPT ![t] = NoClient]
    /\ t_delta' = [t_delta EXCEPT ![t] = 0]
    /\ t_epoch' = [t_epoch EXCEPT ![t] = 0]
    /\ t_arg' = [t_arg EXCEPT ![t] = 0]
    /\ t_ret' = [t_ret EXCEPT ![t] = r]
    /\ t_this' = [t_this EXCEPT ![t] = 0]
    /\ t_public' = [t_public EXCEPT ![t] = FALSE]
    /\ t_blocking' = [t_blocking EXCEPT ![t] = FALSE]
    /\ t_caller' = [t_caller EXCEPT ![t] = "none"]
    /\ t_requested' = [t_requested EXCEPT ![t] = 0]
    /\ t_report' = [t_report EXCEPT ![t] = 0]

localVars == <<t_client, t_delta, t_epoch, t_arg, t_ret, t_this, t_public,
               t_blocking, t_caller, t_requested, t_report>>

\* my_server->adjust_job_count_estimate(delta), called by thread t.
adjust_job_count_estimate(t, delta) ==
    /\ job_count_estimate' = job_count_estimate + delta
    /\ estimate_under_lock' =
           (estimate_under_lock \/ my_arenas_list_mutex = t \/ theMarketMutex = t)

\* arenas_list_mutex_type::scoped_lock lock(my_arenas_list_mutex): thread t
\* gets the mutex when no thread holds it.  A critical section is one step,
\* from the acquisition to the release.
LockList(t) == my_arenas_list_mutex = NoThread

\* A variant in which the thread leaves the section still holding the mutex.
UnlockList_still_held(t) == my_arenas_list_mutex' = t

\* The scoped lock of thread t goes out of scope at the end of the section.
UnlockList(t) == my_arenas_list_mutex' = NoThread

\* global_market_mutex_type::scoped_lock lock(theMarketMutex), and its release.
LockMarket(t) == theMarketMutex = NoThread

UnlockMarket(t) == theMarketMutex' = NoThread

nonListVars == <<lifeVars, my_adjust_demand_target_epoch,
                 my_adjust_demand_current_epoch, arena_priority_level,
                 arena_aba_epoch, job_count_estimate, estimate_under_lock>>

\* ------------------------------------------------------- create / destroy

\* insert_arena_into_list: push_front on the list of the client's priority.
insert_arena_into_list(m, a, level) ==
    LET m1 == TbbAssert(m, level < num_priority_levels, "insert_level_in_range")
    IN  [m1 EXCEPT !.arenas[level] = <<a>> \o @]

\* remove_arena_from_list: unlink from the list of the client's priority.
remove_arena_from_list(m, a, level) ==
    LET m1 == TbbAssert(m, level < num_priority_levels, "remove_level_in_range")
    IN  [m1 EXCEPT !.arenas[level] = SelectSeq(@, LAMBDA x : x # a)]

\* market::create_client: a new client record at address a for an arena of
\* priority level; my_num_workers_allotted has no initializer.
create_client(t, a, level, garbage) ==
    /\ pc[t] = "idle"
    /\ client_state[a] = "free"
    /\ LockList(t)
    /\ LET m0 == [Cur EXCEPT !.cstate[a] = "listed", !.allot[a] = garbage,
                             !.gcm[a] = FALSE, !.top[a] = FALSE, !.dem[a] = 0]
           m1 == insert_arena_into_list(m0, a, level)
           m2 == [m1 EXCEPT !.tickets = @ \cup {a}]
       IN  Commit(m2)
    /\ arena_priority_level' = [arena_priority_level EXCEPT ![a] = level]
    /\ arena_aba_epoch' = [arena_aba_epoch EXCEPT ![a] = my_arenas_aba_epoch]
    /\ my_adjust_demand_target_epoch' = [my_adjust_demand_target_epoch EXCEPT ![a] = 0]
    /\ my_adjust_demand_current_epoch' = [my_adjust_demand_current_epoch EXCEPT ![a] = 0]
    /\ UnlockList(t)
    /\ UNCHANGED <<lifeVars, job_count_estimate, estimate_under_lock, threadVars>>

\* market::destroy_client, called by the thread whose try_destroy_arena
\* returned true: the detached client is deleted and its address is free for
\* the next create_client.
destroy_client(t) ==
    /\ pc[t] = "td_true"
    /\ LET a == t_client[t]
       IN  /\ client_state' = [client_state EXCEPT ![a] = "free"]
           /\ my_num_workers_allotted' = [my_num_workers_allotted EXCEPT ![a] = 0]
           /\ my_is_top_priority' = [my_is_top_priority EXCEPT ![a] = FALSE]
           /\ my_adjust_demand_target_epoch' =
                  [my_adjust_demand_target_epoch EXCEPT ![a] = 0]
           /\ my_adjust_demand_current_epoch' =
                  [my_adjust_demand_current_epoch EXCEPT ![a] = 0]
           /\ arena_priority_level' = [arena_priority_level EXCEPT ![a] = 0]
           /\ arena_aba_epoch' = [arena_aba_epoch EXCEPT ![a] = 0]
    /\ Return(t, 0)
    /\ UNCHANGED <<lifeVars, my_arenas_list_mutex, marketVars,
                   m_global_concurrency_mode, arena_num_workers_requested,
                   dispVars, assert_failed>>

\* ----------------------------------------------------------- adjust_demand

\* permit_manager_client::update_request(delta, mandatory): the net change of
\* the arena's demand; a redundant mandatory request is absorbed (0).
update_request(dem, delta, mandatory, absorbed) ==
    IF mandatory /\ absorbed THEN 0
    ELSE Max(0, Min(MaxDemand, dem + delta)) - dem

\* The clipping of delta in adjust_demand against my_num_workers_requested.
clip_delta(req, delta, total_demand, effective_soft_limit) ==
    IF delta > 0
    THEN (IF req + delta > effective_soft_limit
          THEN effective_soft_limit - req ELSE delta)
    ELSE (IF req + delta < total_demand
          THEN Min(total_demand, effective_soft_limit) - req ELSE delta)

\* effective_soft_limit as adjust_demand computes it.
effective_soft_limit(m) == IF m.mand > 0 THEN 1 ELSE m.soft

\* The critical section of adjust_demand after update_request returned the
\* non-zero delta d for client a: the new record and the clipped delta.
adjust_demand_section(m, a, d) ==
    LET m0 == TbbAssert(m, theMarket # 0, "ad_market_alive")
        total_demand == m0.total + d
        m1 == [m0 EXCEPT !.dem[a] = @ + d,
                         !.total = total_demand,
                         !.pdem[arena_priority_level[a]] = @ + d]
        m2 == IF m1.mand > 0
              THEN TbbAssert(m1, m1.soft = 0, "ad_soft_zero") ELSE m1
        esl == effective_soft_limit(m2)
        m3 == update_allotment(m2, esl)
        delta == clip_delta(m3.req, d, total_demand, esl)
        m4 == [m3 EXCEPT !.req = @ + delta]
    IN  [m |-> TbbAssert(m4, m4.req <= esl, "ad_req_le_limit"), delta |-> delta]

\* adjust_demand(c, 0, mandatory): returns at once.
adjust_demand_zero(t) ==
    /\ pc[t] = "idle"
    /\ UNCHANGED vars

\* adjust_demand: the critical section, for client a and a non-zero delta.
adjust_demand_body(t, a, delta, mandatory, absorbed) ==
    /\ pc[t] = "idle"
    /\ LockList(t)
    /\ a \in Listed
    /\ delta # 0
    /\ mandatory => delta \in {-1, 1}
    /\ absorbed => mandatory
    /\ my_adjust_demand_target_epoch[a] < MaxEpoch
    /\ LET d == update_request(arena_num_workers_requested[a], delta, mandatory, absorbed)
           r == adjust_demand_section(Cur, a, d)
       IN  IF d = 0
           THEN /\ Return(t, 0)
                /\ UNCHANGED <<marketVars, clientVars, arenaVars, tickets,
                               assert_failed>>
           ELSE /\ Commit(r.m)
                /\ my_adjust_demand_target_epoch' =
                       [my_adjust_demand_target_epoch EXCEPT ![a] = @ + 1]
                /\ pc' = [pc EXCEPT ![t] = "ad_wait"]
                /\ t_client' = [t_client EXCEPT ![t] = a]
                /\ t_delta' = [t_delta EXCEPT ![t] = r.delta]
                /\ t_epoch' = [t_epoch EXCEPT ![t] = my_adjust_demand_target_epoch[a]]
                /\ UNCHANGED <<t_arg, t_ret, t_this, t_public, t_blocking, t_caller, t_requested, t_report,
                               my_adjust_demand_current_epoch,
                               arena_priority_level, arena_aba_epoch>>
    /\ UnlockList(t)
    /\ UNCHANGED <<lifeVars, job_count_estimate, estimate_under_lock>>

\* A variant of the call that does not wait for its epoch.
adjust_demand_call_no_wait(t) ==
    /\ pc[t] = "ad_wait"
    /\ adjust_job_count_estimate(t, t_delta[t])
    /\ Goto(t, "ad_call")
    /\ UNCHANGED <<lifeVars, my_arenas_list_mutex, marketVars, clientVars,
                   arenaVars, tickets, localVars, assert_failed>>

\* adjust_demand: wait_until(target_epoch) is over and the dispatcher is called.
adjust_demand_call(t) ==
    /\ pc[t] = "ad_wait"
    /\ my_adjust_demand_current_epoch[t_client[t]] = t_epoch[t]
    /\ adjust_job_count_estimate(t, t_delta[t])
    /\ Goto(t, "ad_call")
    /\ UNCHANGED <<lifeVars, my_arenas_list_mutex, marketVars, clientVars,
                   arenaVars, tickets, localVars, assert_failed>>

\* A variant of the return that does not publish the next epoch.
adjust_demand_done_epoch_kept(t) ==
    /\ pc[t] = "ad_call"
    /\ Return(t, 0)
    /\ UNCHANGED <<lifeVars, my_arenas_list_mutex, marketVars, clientVars,
                   arenaVars, dispVars, assert_failed>>
    /\ UNCHANGED <<t_blocking, t_caller, t_requested, t_report>>

\* adjust_demand: the dispatcher returned; the epoch advances and waiters wake.
adjust_demand_done(t) ==
    /\ pc[t] = "ad_call"
    /\ my_adjust_demand_current_epoch' =
           [my_adjust_demand_current_epoch EXCEPT ![t_client[t]] = t_epoch[t] + 1]
    /\ Return(t, 0)
    /\ UNCHANGED <<lifeVars, my_arenas_list_mutex, marketVars, client_state,
                   m_global_concurrency_mode, my_num_workers_allotted,
                   my_is_top_priority, my_adjust_demand_target_epoch,
                   arenaVars, dispVars, assert_failed>>

adjust_demand(t) ==
    \/ adjust_demand_zero(t)
    \/ \E a \in Clients, delta \in (-MaxDemand) .. MaxDemand,
          mandatory \in BOOLEAN, absorbed \in BOOLEAN :
           adjust_demand_body(t, a, delta, mandatory, absorbed)
    \/ adjust_demand_call(t)
    \/ adjust_demand_done(t)


\* ------------------------------------------------- mandatory concurrency

\* market::is_global_concurrency_disabled, read without the lock.
is_global_concurrency_disabled(a) ==
    my_num_workers_soft_limit = 0 /\ ~m_global_concurrency_mode[a]

\* enable_mandatory_concurrency: the check outside the lock.
enable_mandatory_concurrency_check(t, a) ==
    /\ pc[t] = "idle"
    /\ a \in Listed
    /\ IF is_global_concurrency_disabled(a)
       THEN /\ pc' = [pc EXCEPT ![t] = "em_lock"]
            /\ t_client' = [t_client EXCEPT ![t] = a]
            /\ UNCHANGED <<t_delta, t_epoch, t_arg, t_ret, t_this, t_public,
                           t_blocking, t_caller, t_requested, t_report>>
       ELSE UNCHANGED threadVars
    /\ UNCHANGED <<lifeVars, my_arenas_list_mutex, marketVars, clientVars,
                   arenaVars, dispVars, assert_failed>>

\* enable_mandatory_concurrency: the critical section.
enable_mandatory_concurrency_body(t) ==
    /\ pc[t] = "em_lock"
    /\ LockList(t)
    /\ LET a == t_client[t]
           r == update_workers_request(enable_mandatory_concurrency_impl(Cur, a))
       IN  IF my_num_workers_soft_limit # 0 \/ m_global_concurrency_mode[a]
           THEN /\ Return(t, 0)
                /\ UNCHANGED <<marketVars, client_state, m_global_concurrency_mode,
                               my_num_workers_allotted, my_is_top_priority,
                               arena_num_workers_requested, tickets, assert_failed>>
           ELSE /\ Commit(r.m)
                /\ IF r.delta # 0
                   THEN /\ pc' = [pc EXCEPT ![t] = "em_call"]
                        /\ t_delta' = [t_delta EXCEPT ![t] = r.delta]
                        /\ UNCHANGED <<t_client, t_epoch, t_arg, t_ret, t_this,
                                       t_public, t_blocking, t_caller, t_requested, t_report>>
                   ELSE Return(t, 0)
    /\ UnlockList(t)
    /\ UNCHANGED <<nonListVars>>

enable_mandatory_concurrency_call(t) ==
    /\ pc[t] = "em_call"
    /\ adjust_job_count_estimate(t, t_delta[t])
    /\ Return(t, 0)
    /\ UNCHANGED <<lifeVars, my_arenas_list_mutex, marketVars, clientVars,
                   arenaVars, tickets, assert_failed>>

enable_mandatory_concurrency(t) ==
    \/ \E a \in Clients : enable_mandatory_concurrency_check(t, a)
    \/ enable_mandatory_concurrency_body(t)
    \/ enable_mandatory_concurrency_call(t)

\* mandatory_concurrency_disable: the check outside the lock.
mandatory_concurrency_disable_check(t, a) ==
    /\ pc[t] = "idle"
    /\ a \in Listed
    /\ IF m_global_concurrency_mode[a]
       THEN /\ pc' = [pc EXCEPT ![t] = "md_lock"]
            /\ t_client' = [t_client EXCEPT ![t] = a]
            /\ UNCHANGED <<t_delta, t_epoch, t_arg, t_ret, t_this, t_public,
                           t_blocking, t_caller, t_requested, t_report>>
       ELSE UNCHANGED threadVars
    /\ UNCHANGED <<lifeVars, my_arenas_list_mutex, marketVars, clientVars,
                   arenaVars, dispVars, assert_failed>>

\* The critical section without the question to the arena.
mandatory_concurrency_disable_body_ignoring_tasks(t, has_enqueued_tasks) ==
    /\ pc[t] = "md_lock"
    /\ LockList(t)
    /\ LET a == t_client[t]
           m1 == TbbAssert(Cur, my_num_workers_soft_limit = 0, "md_soft_zero")
           r == update_workers_request(disable_mandatory_concurrency_impl(m1, a))
       IN  IF ~m_global_concurrency_mode[a]
           THEN /\ Return(t, 0)
                /\ UNCHANGED <<marketVars, client_state, m_global_concurrency_mode,
                               my_num_workers_allotted, my_is_top_priority,
                               arena_num_workers_requested, tickets, assert_failed>>
           ELSE /\ Commit(r.m)
                /\ IF r.delta # 0
                   THEN /\ pc' = [pc EXCEPT ![t] = "md_call"]
                        /\ t_delta' = [t_delta EXCEPT ![t] = r.delta]
                        /\ UNCHANGED <<t_client, t_epoch, t_arg, t_ret, t_this,
                                       t_public, t_blocking, t_caller, t_requested, t_report>>
                   ELSE Return(t, 0)
    /\ UnlockList(t)
    /\ UNCHANGED <<nonListVars>>

\* mandatory_concurrency_disable: the critical section; has_enqueued_tasks is
\* what the arena answers when asked under the lock.
mandatory_concurrency_disable_body(t, has_enqueued_tasks) ==
    /\ pc[t] = "md_lock"
    /\ LockList(t)
    /\ LET a == t_client[t]
           m1 == TbbAssert(Cur, my_num_workers_soft_limit = 0, "md_soft_zero")
           r == update_workers_request(disable_mandatory_concurrency_impl(m1, a))
       IN  IF ~m_global_concurrency_mode[a] \/ has_enqueued_tasks
           THEN /\ Return(t, 0)
                /\ UNCHANGED <<marketVars, client_state, m_global_concurrency_mode,
                               my_num_workers_allotted, my_is_top_priority,
                               arena_num_workers_requested, tickets, assert_failed>>
           ELSE /\ Commit(r.m)
                /\ IF r.delta # 0
                   THEN /\ pc' = [pc EXCEPT ![t] = "md_call"]
                        /\ t_delta' = [t_delta EXCEPT ![t] = r.delta]
                        /\ UNCHANGED <<t_client, t_epoch, t_arg, t_ret, t_this,
                                       t_public, t_blocking, t_caller, t_requested, t_report>>
                   ELSE Return(t, 0)
    /\ UnlockList(t)
    /\ UNCHANGED <<nonListVars>>

mandatory_concurrency_disable_call(t) ==
    /\ pc[t] = "md_call"
    /\ adjust_job_count_estimate(t, t_delta[t])
    /\ Return(t, 0)
    /\ UNCHANGED <<lifeVars, my_arenas_list_mutex, marketVars, clientVars,
                   arenaVars, tickets, assert_failed>>

mandatory_concurrency_disable(t) ==
    \/ \E a \in Clients : mandatory_concurrency_disable_check(t, a)
    \/ \E has_enqueued_tasks \in BOOLEAN :
           mandatory_concurrency_disable_body(t, has_enqueued_tasks)
    \/ mandatory_concurrency_disable_call(t)

\* ------------------------------------------------------ try_destroy_arena

\* A variant of detach_arena that leaves the mandatory request of the client.
detach_arena_keep_mandatory(m, a) ==
    LET m2 == remove_arena_from_list(m, a, arena_priority_level[a])
        m3 == [m2 EXCEPT !.tickets = @ \ {a}, !.cstate[a] = "detached"]
    IN  IF arena_aba_epoch[a] = m3.aba THEN [m3 EXCEPT !.aba = @ + 1] ELSE m3

\* market::detach_arena, under my_arenas_list_mutex.
detach_arena(m, a) ==
    LET m0 == TbbAssert(m, theMarket # 0, "detach_market_alive")
        m1 == IF m0.gcm[a] THEN disable_mandatory_concurrency_impl(m0, a) ELSE m0
        m2 == remove_arena_from_list(m1, a, arena_priority_level[a])
        m3 == [m2 EXCEPT !.tickets = @ \ {a}, !.cstate[a] = "detached"]
    IN  IF arena_aba_epoch[a] = m3.aba THEN [m3 EXCEPT !.aba = @ + 1] ELSE m3

\* A variant of the decision that does not look at the demand of the client.
try_destroy_decision_ignoring_demand(m, a, aba_epoch, priority_level, other_references) ==
    /\ a \in SeqToSet(m.arenas[priority_level])
    /\ arena_aba_epoch[a] = aba_epoch
    /\ references(a, other_references) = 0

\* A variant of the decision that does not compare the epochs.
try_destroy_decision_ignoring_epoch(m, a, aba_epoch, priority_level, other_references) ==
    /\ a \in SeqToSet(m.arenas[priority_level])
    /\ m.dem[a] = 0
    /\ references(a, other_references) = 0

\* The decision of try_destroy_arena under the lock: TRUE when the client is
\* found in the list of priority_level, alive and abandoned.
try_destroy_decision(m, a, aba_epoch, priority_level, other_references) ==
    /\ a \in SeqToSet(m.arenas[priority_level])
    /\ arena_aba_epoch[a] = aba_epoch
    /\ m.dem[a] = 0
    /\ references(a, other_references) = 0

\* try_destroy_arena(c, aba_epoch, priority_level): the scan under the lock.
\* On true the caller goes on to free the arena and its client.
try_destroy_arena_body(t, a, aba_epoch, priority_level, other_references) ==
    /\ pc[t] = "idle"
    /\ LockList(t)
    /\ IF try_destroy_decision(Cur, a, aba_epoch, priority_level, other_references)
       THEN /\ Commit(detach_arena(Cur, a))
            /\ pc' = [pc EXCEPT ![t] = "td_true"]
            /\ t_client' = [t_client EXCEPT ![t] = a]
            /\ t_ret' = [t_ret EXCEPT ![t] = 1]
            /\ UNCHANGED <<t_delta, t_epoch, t_arg, t_this, t_public,
                           t_blocking, t_caller, t_requested, t_report>>
       ELSE /\ Return(t, 0)
            /\ UNCHANGED <<marketVars, client_state, m_global_concurrency_mode,
                           my_num_workers_allotted, my_is_top_priority,
                           arena_num_workers_requested, tickets, assert_failed>>
    /\ UnlockList(t)
    /\ UNCHANGED <<nonListVars>>

try_destroy_arena(t) ==
    \E a \in Clients, aba_epoch \in 0 .. (MaxReuseEpoch - 1), priority_level \in Levels,
          other_references \in 0 .. 1 :
           try_destroy_arena_body(t, a, aba_epoch, priority_level, other_references)


\* ------------------------------------------------ set_active_num_workers

RECURSIVE AllClients(_, _)
\* The clients in iteration order: level by level, each list head first.
AllClients(arenas, level) ==
    IF level >= num_priority_levels THEN <<>>
    ELSE arenas[level] \o AllClients(arenas, level + 1)

\* A variant of the loop that stops after the first client of the lists.
DisableAll_first_only(m, list, i) ==
    IF Len(list) >= 1 /\ m.gcm[list[1]]
    THEN disable_mandatory_concurrency_impl(m, list[1]) ELSE m

RECURSIVE DisableAll(_, _, _)
\* The loop of set_active_num_workers that leaves mandatory mode.
DisableAll(m, list, i) ==
    IF i > Len(list) THEN m
    ELSE DisableAll(IF m.gcm[list[i]]
                    THEN disable_mandatory_concurrency_impl(m, list[i]) ELSE m,
                    list, i + 1)

\* A variant of the loop that looks at the first client of the lists only.
EnableEnqueued_first_only(m, list, i, enqueued) ==
    IF Len(list) >= 1 /\ list[1] \in enqueued
    THEN enable_mandatory_concurrency_impl(m, list[1]) ELSE m

RECURSIVE EnableEnqueued(_, _, _, _)
\* The loop of set_active_num_workers that enters mandatory mode; enqueued is
\* the set of clients whose arena answers has_enqueued_tasks() with true.
EnableEnqueued(m, list, i, enqueued) ==
    IF i > Len(list) THEN m
    ELSE EnableEnqueued(IF list[i] \in enqueued
                        THEN enable_mandatory_concurrency_impl(m, list[i]) ELSE m,
                        list, i + 1, enqueued)

\* A variant of the section that changes the limit without leaving the
\* mandatory mode first.
set_active_num_workers_section_keep_mandatory(m, soft_limit, enqueued) ==
    LET m3 == [m EXCEPT !.soft = soft_limit]
        m4 == IF m3.soft = 0
              THEN EnableEnqueued(m3, AllClients(m3.arenas, 0), 1, enqueued) ELSE m3
    IN  update_workers_request(m4)

\* The critical section of set_active_num_workers(soft_limit) under
\* my_arenas_list_mutex: the new record and the delta for the dispatcher.
set_active_num_workers_section(m, soft_limit, enqueued) ==
    LET m0 == TbbAssert(m, soft_limit <= my_num_workers_hard_limit, "saw_le_hard_limit")
        m1 == IF m0.soft = 0 /\ m0.mand > 0
              THEN DisableAll(m0, AllClients(m0.arenas, 0), 1) ELSE m0
        m2 == TbbAssert(m1, m1.mand = 0, "saw_mandatory_zero")
        m3 == [m2 EXCEPT !.soft = soft_limit]
        m4 == IF m3.soft = 0
              THEN EnableEnqueued(m3, AllClients(m3.arenas, 0), 1, enqueued) ELSE m3
    IN  update_workers_request(m4)

\* set_active_num_workers(soft_limit), called by the application (from idle)
\* or by add_ref_unsafe (at saw_enter, the argument in t_arg): the section
\* under theMarketMutex.
set_active_num_workers_check(t, soft_limit) ==
    /\ pc[t] \in {"idle", "saw_enter"}
    /\ pc[t] = "saw_enter" => soft_limit = t_arg[t]
    /\ LockMarket(t)
    /\ UnlockMarket(t)
    /\ IF theMarket = 0 \/ my_num_workers_soft_limit = soft_limit
       THEN /\ IF t_caller[t] = "gm"
               THEN Goto(t, "gm_warn") /\ UNCHANGED localVars
               ELSE Return(t, 0)
            /\ UNCHANGED my_ref_count
       ELSE /\ my_ref_count' = my_ref_count + 1
            /\ pc' = [pc EXCEPT ![t] = "saw_lock"]
            /\ t_this' = [t_this EXCEPT ![t] = theMarket]
            /\ t_arg' = [t_arg EXCEPT ![t] = soft_limit]
            /\ UNCHANGED <<t_client, t_delta, t_epoch, t_ret, t_public,
                           t_blocking, t_caller, t_requested, t_report>>
    /\ UNCHANGED <<theMarket, instances, my_public_ref_count,
                   close_requested, my_join_workers, default_num_threads, propVars, calcVars,
                   my_num_workers_hard_limit,
                   my_workers_soft_limit_to_report, warnings, public_handles,
                   private_handles, my_arenas_list_mutex, marketVars, clientVars,
                   arenaVars, dispVars, assert_failed>>

\* set_active_num_workers: the section under my_arenas_list_mutex.
set_active_num_workers_body(t, enqueued) ==
    /\ pc[t] = "saw_lock"
    /\ LockList(t)
    /\ enqueued \subseteq Listed
    /\ LET r == set_active_num_workers_section(Cur, t_arg[t], enqueued)
       IN  /\ Commit(r.m)
           /\ pc' = [pc EXCEPT ![t] = "saw_call"]
           /\ t_delta' = [t_delta EXCEPT ![t] = r.delta]
    /\ my_workers_soft_limit_to_report' = t_arg[t]
    /\ warnings' = 0
    /\ UnlockList(t)
    /\ t_arg' = [t_arg EXCEPT ![t] = 0]
    /\ UNCHANGED <<t_client, t_epoch, t_ret, t_this, t_public, t_blocking,
                   t_caller, t_requested, t_report>>
    /\ UNCHANGED <<theMarketMutex, theMarket, instances, my_ref_count,
                   my_public_ref_count, close_requested, my_join_workers,
                   default_num_threads, propVars, calcVars, my_num_workers_hard_limit, public_handles, private_handles,
                   my_adjust_demand_target_epoch, my_adjust_demand_current_epoch,
                   arena_priority_level, arena_aba_epoch, job_count_estimate,
                   estimate_under_lock>>

\* set_active_num_workers: a non-zero delta goes to the dispatcher; then the
\* internal reference is released with release(false, false).
set_active_num_workers_call(t) ==
    /\ pc[t] = "saw_call"
    /\ IF t_delta[t] # 0
       THEN adjust_job_count_estimate(t, t_delta[t])
       ELSE UNCHANGED <<job_count_estimate, estimate_under_lock>>
    /\ Goto(t, "rel_enter")
    /\ UNCHANGED <<lifeVars, my_arenas_list_mutex, marketVars, clientVars,
                   arenaVars, tickets, localVars, assert_failed>>

set_active_num_workers(t) ==
    \/ \E soft_limit \in 0 .. MaxSoftLimit : set_active_num_workers_check(t, soft_limit)
    \/ \E enqueued \in SUBSET Clients : set_active_num_workers_body(t, enqueued)
    \/ set_active_num_workers_call(t)


\* ------------------------------------------------------------- lifetime

\* workers_soft_limit without the clamp to workers_hard_limit - 1.
calc_workers_soft_limit_unclamped(workers_soft_limit, workers_hard_limit, app_limit, default_threads) ==
    IF app_limit # 0 THEN app_limit - 1
    ELSE Max(default_threads - 1, workers_soft_limit)

\* static calc_workers_soft_limit(workers_soft_limit, workers_hard_limit), with
\* the values of market::app_parallelism_limit() and default_num_threads().
calc_workers_soft_limit(workers_soft_limit, workers_hard_limit, app_limit, default_threads) ==
    LET soft == IF app_limit # 0 THEN app_limit - 1
                ELSE Max(default_threads - 1, workers_soft_limit)
    IN  IF soft >= workers_hard_limit THEN workers_hard_limit - 1 ELSE soft

\* workers_hard_limit as global_market computes it for a new instance.
calc_workers_hard_limit(app_limit, default_threads) ==
    LET factor == IF default_threads <= LargeThreadNumber THEN 4 ELSE 2
    IN  Max(Max(factor * default_threads, MinHardLimit), app_limit)

\* The inputs of a computation of the limits lie within MaxOffset of the
\* values where the code branches: the smallest values, LargeThreadNumber for
\* default_num_threads(), MinHardLimit and 4 * LargeThreadNumber (the hard
\* limits) for workers_requested and app_parallelism_limit().  All are far
\* below 2^32, the width of unsigned.
MaxOffset == 2
Near(x) == (x - MaxOffset) .. (x + MaxOffset)
CalcDefaultThreads == (1 .. 1 + MaxOffset) \cup Near(LargeThreadNumber)
CalcRequested == (0 .. MaxOffset) \cup Near(MinHardLimit) \cup Near(4 * LargeThreadNumber)
CalcAppLimits == (0 .. MaxOffset) \cup Near(MinHardLimit) \cup Near(4 * LargeThreadNumber)

\* No limits computed yet.
NoLimits == [done |-> FALSE, workers_hard_limit |-> 0, workers_soft_limit |-> 0]

\* No computation of limits is followed.
CalcInit ==
    /\ calc_in = [workers_requested |-> 0, app_limit |-> 0, default_threads |-> 1]
    /\ calc_out = NoLimits

\* global_market without a live market computes the limits of the new
\* instance from workers_requested, app_parallelism_limit() and
\* default_num_threads().
calc_limits ==
    /\ ~calc_out.done
    /\ LET workers_hard_limit ==
               calc_workers_hard_limit(calc_in.app_limit, calc_in.default_threads)
           workers_soft_limit ==
               calc_workers_soft_limit(calc_in.workers_requested, workers_hard_limit,
                                       calc_in.app_limit, calc_in.default_threads)
       IN  calc_out' = [done |-> TRUE,
                        workers_hard_limit |-> workers_hard_limit,
                        workers_soft_limit |-> workers_soft_limit]
    /\ UNCHANGED <<calc_in, propVars, singletonVars, my_arenas_list_mutex,
                   marketVars, clientVars, arenaVars, dispVars, threadVars,
                   assert_failed>>

\* The thread leaves release(): back in set_active_num_workers, which returns
\* to add_ref_unsafe or to the application.
ReturnFromRelease(t, r) ==
    IF t_caller[t] = "gm"
    THEN Goto(t, "gm_warn") /\ UNCHANGED localVars
    ELSE Return(t, r)

\* A variant of release that never waits for the other references.
must_wait_never(blocking_terminate) == FALSE

\* The condition of the blocking-terminate wait.
must_wait(blocking_terminate) ==
    blocking_terminate /\ my_public_ref_count = 1 /\ my_ref_count > 1

\* A variant of release that leaves my_public_ref_count as it is.
release_public_count_kept(is_public) == my_public_ref_count

\* The counts after the decrements of release.
release_public_count(is_public) ==
    IF is_public THEN my_public_ref_count - 1 ELSE my_public_ref_count

release_ref_count == my_ref_count - 1

\* release: the section under theMarketMutex, on the instance this.  A
\* blocking release that must wait drops the mutex and yields; otherwise the
\* counts are decremented and the last reference clears theMarket.
release_section(t, this, is_public, blocking_terminate) ==
    /\ LockMarket(t)
    /\ IF must_wait(blocking_terminate)
       THEN /\ pc' = [pc EXCEPT ![t] = "rel_yield"]
            /\ t_this' = [t_this EXCEPT ![t] = this]
            /\ t_public' = [t_public EXCEPT ![t] = is_public]
            /\ t_blocking' = [t_blocking EXCEPT ![t] = blocking_terminate]
            /\ UNCHANGED <<t_client, t_delta, t_epoch, t_arg, t_ret, t_caller,
                           t_requested, t_report>>
            /\ UNCHANGED <<theMarket, my_ref_count, my_public_ref_count,
                           assert_failed>>
       ELSE /\ my_public_ref_count' = release_public_count(is_public)
            /\ my_ref_count' = release_ref_count
            /\ assert_failed' = assert_failed
                  \cup (IF theMarket # this
                        THEN {"release_market_alive"} ELSE {})
                  \cup (IF is_public /\ my_public_ref_count = 0
                        THEN {"release_public_positive"} ELSE {})
                  \cup (IF release_ref_count = 0 /\ release_public_count(is_public) # 0
                        THEN {"release_no_public_left"} ELSE {})
            /\ IF release_ref_count = 0
               THEN /\ theMarket' = 0
                    /\ pc' = [pc EXCEPT ![t] = "rel_close"]
                    /\ t_this' = [t_this EXCEPT ![t] = this]
                    /\ t_blocking' = [t_blocking EXCEPT ![t] = blocking_terminate]
                    /\ UNCHANGED <<t_client, t_delta, t_epoch, t_arg, t_ret,
                                   t_public, t_caller, t_requested, t_report>>
               ELSE /\ UNCHANGED theMarket
                    /\ ReturnFromRelease(t, 0)
    /\ UnlockMarket(t)
    /\ UNCHANGED <<instances, close_requested, my_join_workers,
                   default_num_threads, propVars, calcVars, my_num_workers_hard_limit,
                   my_workers_soft_limit_to_report, warnings,
                   my_arenas_list_mutex, marketVars, clientVars, arenaVars,
                   dispVars>>

\* release(is_public, blocking_terminate) called by the application on a
\* handle of the live market: the call and its first section.
release_enter(t, is_public, blocking_terminate) ==
    /\ pc[t] = "idle"
    /\ theMarket # 0
    /\ blocking_terminate => is_public
    /\ IF is_public THEN public_handles > 0 ELSE private_handles > 0
    /\ public_handles' = IF is_public THEN public_handles - 1 ELSE public_handles
    /\ private_handles' = IF is_public THEN private_handles ELSE private_handles - 1
    /\ release_section(t, theMarket, is_public, blocking_terminate)

\* release: the section of the release(false, false) that ends
\* set_active_num_workers, or the section after the blocking-terminate wait.
release_body(t) ==
    /\ pc[t] \in {"rel_enter", "rel_reacquire"}
    /\ IF pc[t] = "rel_enter"
       THEN release_section(t, t_this[t], FALSE, FALSE)
       ELSE release_section(t, t_this[t], t_public[t], t_blocking[t])
    /\ UNCHANGED <<public_handles, private_handles>>

\* A variant of the yield loop that waits until no reference is left at all,
\* the reference of the waiting thread included.
release_yield_until_unreferenced(t) ==
    /\ pc[t] = "rel_yield"
    /\ my_ref_count = 0
    /\ Goto(t, "rel_reacquire")
    /\ UNCHANGED <<lifeVars, my_arenas_list_mutex, marketVars, clientVars,
                   arenaVars, dispVars, localVars, assert_failed>>

\* release: the yield loop ends when the counts have changed.
release_yield(t) ==
    /\ pc[t] = "rel_yield"
    /\ ~(my_public_ref_count = 1 /\ my_ref_count > 1)
    /\ Goto(t, "rel_reacquire")
    /\ UNCHANGED <<lifeVars, my_arenas_list_mutex, marketVars, clientVars,
                   arenaVars, dispVars, localVars, assert_failed>>

\* release: the last reference tells the dispatcher to close the connection.
release_close(t) ==
    /\ pc[t] = "rel_close"
    /\ my_join_workers' = [my_join_workers EXCEPT ![t_this[t]] = t_blocking[t]]
    /\ close_requested' = close_requested \cup {t_this[t]}
    /\ ReturnFromRelease(t, IF t_blocking[t] THEN 1 ELSE 0)
    /\ UNCHANGED <<theMarketMutex, theMarket, instances, my_ref_count,
                   my_public_ref_count, default_num_threads, propVars, calcVars,
                   my_num_workers_hard_limit,
                   my_workers_soft_limit_to_report, warnings, public_handles,
                   private_handles, my_arenas_list_mutex, marketVars, clientVars,
                   arenaVars, dispVars, assert_failed>>

release(t) ==
    \/ \E is_public \in BOOLEAN, blocking_terminate \in BOOLEAN :
           release_enter(t, is_public, blocking_terminate)
    \/ release_body(t)
    \/ release_yield(t)
    \/ release_close(t)


\* The fields of a market constructed in zeroed storage.
ConstructMarket(workers_soft_limit, workers_hard_limit) ==
    /\ my_num_workers_soft_limit' = workers_soft_limit
    /\ my_workers_soft_limit_to_report' = workers_soft_limit
    /\ my_num_workers_hard_limit' = workers_hard_limit
    /\ my_total_demand' = 0
    /\ my_priority_level_demand' = [l \in Levels |-> 0]
    /\ my_num_workers_requested' = 0
    /\ my_mandatory_num_requested' = 0
    /\ my_arenas' = [l \in Levels |-> <<>>]
    /\ my_arenas_aba_epoch' = 0
    /\ job_count_estimate' = 0
    /\ warnings' = 0

\* global_market(is_public, workers_requested, stack_size): the section under
\* theMarketMutex.  With a live market add_ref_unsafe takes the reference and
\* goes on outside the lock; without one a new instance is created and published.
global_market_body(t, is_public, workers_requested, app_limit, lifetime_control) ==
    /\ pc[t] = "idle"
    /\ LockMarket(t)
    /\ UnlockMarket(t)
    /\ IF theMarket # 0
       THEN /\ my_ref_count < MaxRefCount
            /\ my_ref_count' = my_ref_count + 1
            /\ my_public_ref_count' =
                   IF is_public THEN my_public_ref_count + 1 ELSE my_public_ref_count
            /\ LET old_public_count == IF is_public THEN my_public_ref_count ELSE 1
               IN  pc' = [pc EXCEPT ![t] =
                             IF old_public_count = 0 THEN "saw_enter" ELSE "gm_warn"]
            /\ t_arg' = [t_arg EXCEPT ![t] =
                   calc_workers_soft_limit(workers_requested, my_num_workers_hard_limit,
                                           app_limit, default_num_threads)]
            /\ t_this' = [t_this EXCEPT ![t] = theMarket]
            /\ t_public' = [t_public EXCEPT ![t] = is_public]
            /\ t_caller' = [t_caller EXCEPT ![t] = "gm"]
            /\ t_requested' = [t_requested EXCEPT ![t] = workers_requested]
            /\ UNCHANGED <<t_client, t_delta, t_epoch, t_ret, t_blocking, t_report>>
            /\ UNCHANGED <<theMarket, instances, my_num_workers_hard_limit,
                           my_workers_soft_limit_to_report, warnings,
                           public_handles, private_handles, marketVars,
                           job_count_estimate>>
       ELSE /\ instances < MaxInstances
            /\ LET workers_hard_limit == calc_workers_hard_limit(app_limit, default_num_threads)
                   workers_soft_limit ==
                       calc_workers_soft_limit(workers_requested, workers_hard_limit,
                                               app_limit, default_num_threads)
               IN  ConstructMarket(workers_soft_limit, workers_hard_limit)
            /\ my_ref_count' = 1 + (IF lifetime_control THEN 1 ELSE 0)
            /\ my_public_ref_count' =
                   (IF is_public THEN 1 ELSE 0) + (IF lifetime_control THEN 1 ELSE 0)
            /\ instances' = instances + 1
            /\ theMarket' = instances + 1
            /\ public_handles' = public_handles + (IF is_public THEN 1 ELSE 0)
                                 + (IF lifetime_control THEN 1 ELSE 0)
            /\ private_handles' = private_handles + (IF is_public THEN 0 ELSE 1)
            /\ Return(t, 0)
    /\ UNCHANGED <<close_requested, my_join_workers,
                   default_num_threads, propVars, calcVars, my_arenas_list_mutex, clientVars,
                   arenaVars, tickets, estimate_under_lock, assert_failed>>

\* add_ref_unsafe after the lock: the report word is loaded unless the default
\* number of workers was requested.
global_market_warn_load(t) ==
    /\ pc[t] = "gm_warn"
    /\ IF t_requested[t] # default_num_threads - 1
          /\ my_workers_soft_limit_to_report < t_requested[t]
       THEN /\ pc' = [pc EXCEPT ![t] = "gm_warn_cas"]
            /\ t_report' = [t_report EXCEPT ![t] = my_workers_soft_limit_to_report]
            /\ UNCHANGED <<t_client, t_delta, t_epoch, t_arg, t_ret, t_this,
                           t_public, t_blocking, t_caller, t_requested>>
            /\ UNCHANGED <<public_handles, private_handles>>
       ELSE /\ public_handles' = public_handles + (IF t_public[t] THEN 1 ELSE 0)
            /\ private_handles' = private_handles + (IF t_public[t] THEN 0 ELSE 1)
            /\ Return(t, 0)
    /\ assert_failed' = IF t_requested[t] # default_num_threads - 1
                           /\ ~(skip_soft_limit_warning > t_requested[t])
                        THEN assert_failed \cup {"skip_warning_larger"}
                        ELSE assert_failed
    /\ UNCHANGED <<theMarketMutex, theMarket, instances, my_ref_count,
                   my_public_ref_count, close_requested, my_join_workers,
                   default_num_threads, propVars, calcVars, my_num_workers_hard_limit,
                   my_workers_soft_limit_to_report, warnings,
                   my_arenas_list_mutex, marketVars, clientVars, arenaVars,
                   dispVars>>

\* add_ref_unsafe: the warning is printed and the report word is set to
\* skip_soft_limit_warning if it still holds the value loaded.
global_market_warn_cas(t) ==
    /\ pc[t] = "gm_warn_cas"
    /\ warnings' = warnings + 1
    /\ my_workers_soft_limit_to_report' =
           IF my_workers_soft_limit_to_report = t_report[t]
           THEN skip_soft_limit_warning ELSE my_workers_soft_limit_to_report
    /\ public_handles' = public_handles + (IF t_public[t] THEN 1 ELSE 0)
    /\ private_handles' = private_handles + (IF t_public[t] THEN 0 ELSE 1)
    /\ Return(t, 0)
    /\ UNCHANGED <<theMarketMutex, theMarket, instances, my_ref_count,
                   my_public_ref_count, close_requested, my_join_workers,
                   default_num_threads, propVars, calcVars, my_num_workers_hard_limit,
                   my_arenas_list_mutex, marketVars, clientVars, arenaVars,
                   dispVars, assert_failed>>

global_market(t) ==
    \/ \E is_public \in BOOLEAN, workers_requested \in 0 .. MaxRequested,
          app_limit \in 0 .. MaxAppLimit, lifetime_control \in BOOLEAN :
           global_market_body(t, is_public, workers_requested, app_limit,
                              lifetime_control)
    \/ global_market_warn_load(t)
    \/ global_market_warn_cas(t)

\* --------------------------------------------- task-group state propagation

\* The worker slots of my_workers, the external threads that may register,
\* the values of a context's state word, and the number of broadcasts of a
\* behaviour.
NumWorkerSlots == 2
NumExternalThreads == 2
MaxState == 2
MaxPropagations == 2

\* thread_data* : NoData is the null pointer, the worker of slot i is i + 1,
\* the external threads follow.
NoData == 0
WorkerSlots == 0 .. NumWorkerSlots - 1
WorkerData(i) == i + 1
ExternalThreads == NumWorkerSlots + 1 .. NumWorkerSlots + NumExternalThreads
ThreadData == 1 .. NumWorkerSlots + NumExternalThreads
States == 0 .. MaxState

\* The locals of a call that is not running.
NoPropagation ==
    [new_state |-> 0, num_workers |-> 0, i |-> 0, it |-> 1,
     received |-> {}, epoch_at_lock |-> 0, registered_at_lock |-> {}]

PropagationInit ==
    /\ the_context_state_propagation_mutex = NoThread
    /\ the_context_state_propagation_epoch = 0
    /\ my_masters = <<>>
    /\ my_workers = [i \in WorkerSlots |-> NoData]
    /\ my_first_unused_worker_idx = 0
    /\ src_state = 0
    /\ src_may_have_children = FALSE
    /\ td_state = [td \in ThreadData |-> 0]
    /\ pts = [t \in Threads |-> NoPropagation]

\* A lock that excludes nobody.
LockPropagation_not_exclusive(t) == TRUE

\* scoped_lock lock(the_context_state_propagation_mutex) can be taken.
LockPropagation(t) == the_context_state_propagation_mutex = NoThread

\* thread_data::propagate_task_group_state : td receives new_state.
td_propagate_task_group_state(td, new_state) ==
    td_state' = [td_state EXCEPT ![td] = new_state]

\* The recipients the broadcast owes an update when it takes the mutex: the
\* workers published below my_first_unused_worker_idx and the members of
\* my_masters.
RegisteredNow ==
    ({my_workers[i] : i \in {j \in WorkerSlots : j < my_first_unused_worker_idx}}
         \ {NoData})
    \cup {my_masters[k] : k \in 1 .. Len(my_masters)}

\* A child context is bound to src: src.my_may_have_children becomes
\* may_have_children.
bind_child ==
    /\ ~src_may_have_children
    /\ src_may_have_children' = TRUE
    /\ UNCHANGED <<the_context_state_propagation_mutex,
                   the_context_state_propagation_epoch, my_masters, my_workers,
                   my_first_unused_worker_idx, src_state, td_state, pts>>
    /\ UNCHANGED <<nonPropVars, threadVars>>

\* The caller of propagate_task_group_state has stored new_state in the field
\* of src (task_group_context::cancel_group_execution) and makes the call.
store_state(t, new_state) ==
    /\ pc[t] = "idle"
    /\ the_context_state_propagation_epoch < MaxPropagations
    /\ src_state' = new_state
    /\ pts' = [pts EXCEPT ![t] = [NoPropagation EXCEPT !.new_state = new_state]]
    /\ Goto(t, "pts_enter")
    /\ UNCHANGED <<the_context_state_propagation_mutex,
                   the_context_state_propagation_epoch, my_masters, my_workers,
                   my_first_unused_worker_idx, src_may_have_children, td_state>>
    /\ UNCHANGED <<t_client, t_delta, t_epoch, t_arg, t_ret, t_this, t_public,
                   t_blocking, t_caller, t_requested, t_report>>
    /\ UNCHANGED nonPropVars

\* The check before the mutex: a context without children has nothing to
\* propagate to, the call returns true.
propagate_enter(t) ==
    /\ pc[t] = "pts_enter"
    /\ IF ~src_may_have_children
         THEN /\ Return(t, 1)
              /\ UNCHANGED <<t_blocking, t_caller, t_requested, t_report>>
         ELSE /\ Goto(t, "pts_lock")
              /\ UNCHANGED <<t_client, t_delta, t_epoch, t_arg, t_ret, t_this,
                             t_public, t_blocking, t_caller, t_requested,
                             t_report>>
    /\ UNCHANGED <<propVars, nonPropVars>>

\* The mutex is taken and the field of src is read again. Another state: the
\* call backs down and returns false. The same state: the epoch advances and
\* my_first_unused_worker_idx is read.
propagate_lock(t) ==
    /\ pc[t] = "pts_lock"
    /\ LockPropagation(t)
    /\ IF src_state # pts[t].new_state
         THEN /\ the_context_state_propagation_mutex' = NoThread
              /\ Return(t, 0)
              /\ UNCHANGED <<t_blocking, t_caller, t_requested, t_report>>
              /\ UNCHANGED <<the_context_state_propagation_epoch, pts>>
         ELSE /\ the_context_state_propagation_mutex' = t
              /\ the_context_state_propagation_epoch' =
                     the_context_state_propagation_epoch + 1
              /\ pts' = [pts EXCEPT ![t] =
                     [@ EXCEPT !.num_workers = my_first_unused_worker_idx,
                               !.i = 0,
                               !.it = 1,
                               !.received = {},
                               !.epoch_at_lock = the_context_state_propagation_epoch,
                               !.registered_at_lock = RegisteredNow]]
              /\ Goto(t, "pts_workers")
              /\ UNCHANGED <<t_client, t_delta, t_epoch, t_arg, t_ret, t_this,
                             t_public, t_blocking, t_caller, t_requested,
                             t_report>>
    /\ UNCHANGED <<my_masters, my_workers, my_first_unused_worker_idx,
                   src_state, src_may_have_children, td_state>>
    /\ UNCHANGED nonPropVars

\* One turn of the loop over my_workers[0 .. num_workers): a null slot is
\* skipped, a published worker receives new_state.
propagate_worker(t) ==
    /\ pc[t] = "pts_workers"
    /\ IF pts[t].i < pts[t].num_workers
         THEN LET td == my_workers[pts[t].i] IN
              /\ IF td # NoData
                   THEN /\ td_propagate_task_group_state(td, pts[t].new_state)
                        /\ pts' = [pts EXCEPT ![t] =
                               [@ EXCEPT !.i = @ + 1,
                                         !.received = @ \cup {td}]]
                   ELSE /\ pts' = [pts EXCEPT ![t] = [@ EXCEPT !.i = @ + 1]]
                        /\ UNCHANGED td_state
              /\ UNCHANGED pc
         ELSE /\ Goto(t, "pts_masters")
              /\ UNCHANGED <<td_state, pts>>
    /\ UNCHANGED <<the_context_state_propagation_mutex,
                   the_context_state_propagation_epoch, my_masters, my_workers,
                   my_first_unused_worker_idx, src_state, src_may_have_children>>
    /\ UNCHANGED <<t_client, t_delta, t_epoch, t_arg, t_ret, t_this, t_public,
                   t_blocking, t_caller, t_requested, t_report>>
    /\ UNCHANGED nonPropVars

\* One turn of the loop over my_masters; at my_masters.end() the mutex is
\* released and the call returns true.
propagate_master(t) ==
    /\ pc[t] = "pts_masters"
    /\ IF pts[t].it <= Len(my_masters)
         THEN LET td == my_masters[pts[t].it] IN
              /\ td_propagate_task_group_state(td, pts[t].new_state)
              /\ pts' = [pts EXCEPT ![t] =
                     [@ EXCEPT !.it = @ + 1, !.received = @ \cup {td}]]
              /\ UNCHANGED <<the_context_state_propagation_mutex, threadVars>>
         ELSE /\ the_context_state_propagation_mutex' = NoThread
              /\ Return(t, 1)
              /\ UNCHANGED <<t_blocking, t_caller, t_requested, t_report>>
              /\ pts' = [pts EXCEPT ![t] =
                     [NoPropagation EXCEPT !.new_state = pts[t].new_state]]
              /\ UNCHANGED td_state
    /\ UNCHANGED <<the_context_state_propagation_epoch, my_masters, my_workers,
                   my_first_unused_worker_idx, src_state, src_may_have_children>>
    /\ UNCHANGED nonPropVars

propagate_task_group_state(t) ==
    \/ propagate_enter(t)
    \/ propagate_lock(t)
    \/ propagate_worker(t)
    \/ propagate_master(t)

\* An external thread registers: under the mutex, at the front of my_masters.
add_external_thread(t, td) ==
    /\ pc[t] = "idle"
    /\ td \notin {my_masters[k] : k \in 1 .. Len(my_masters)}
    /\ LockPropagation(t)
    /\ my_masters' = <<td>> \o my_masters
    /\ UNCHANGED <<the_context_state_propagation_mutex,
                   the_context_state_propagation_epoch, my_workers,
                   my_first_unused_worker_idx, src_state, src_may_have_children,
                   td_state, pts>>
    /\ UNCHANGED <<nonPropVars, threadVars>>

\* An external thread leaves: under the mutex, td is unlinked from my_masters.
remove_external_thread(t, td) ==
    /\ pc[t] = "idle"
    /\ td \in {my_masters[k] : k \in 1 .. Len(my_masters)}
    /\ LockPropagation(t)
    /\ my_masters' = SelectSeq(my_masters, LAMBDA x : x # td)
    /\ UNCHANGED <<the_context_state_propagation_mutex,
                   the_context_state_propagation_epoch, my_workers,
                   my_first_unused_worker_idx, src_state, src_may_have_children,
                   td_state, pts>>
    /\ UNCHANGED <<nonPropVars, threadVars>>

\* The dispatcher starts a worker: it takes the next index.
claim_worker_slot ==
    /\ my_first_unused_worker_idx < NumWorkerSlots
    /\ my_first_unused_worker_idx' = my_first_unused_worker_idx + 1
    /\ UNCHANGED <<the_context_state_propagation_mutex,
                   the_context_state_propagation_epoch, my_masters, my_workers,
                   src_state, src_may_have_children, td_state, pts>>
    /\ UNCHANGED <<nonPropVars, threadVars>>

\* The worker of a claimed index publishes its thread_data in its slot.
publish_worker(i) ==
    /\ i < my_first_unused_worker_idx
    /\ my_workers[i] = NoData
    /\ my_workers' = [my_workers EXCEPT ![i] = WorkerData(i)]
    /\ UNCHANGED <<the_context_state_propagation_mutex,
                   the_context_state_propagation_epoch, my_masters,
                   my_first_unused_worker_idx, src_state, src_may_have_children,
                   td_state, pts>>
    /\ UNCHANGED <<nonPropVars, threadVars>>

\* ------------------------------------------------------- specifications

ThreadsInit ==
    /\ pc = [t \in Threads |-> "idle"]
    /\ t_client = [t \in Threads |-> NoClient]
    /\ t_delta = [t \in Threads |-> 0]
    /\ t_epoch = [t \in Threads |-> 0]
    /\ t_arg = [t \in Threads |-> 0]
    /\ t_ret = [t \in Threads |-> 0]
    /\ t_this = [t \in Threads |-> 0]
    /\ t_public = [t \in Threads |-> FALSE]
    /\ t_blocking = [t \in Threads |-> FALSE]
    /\ t_caller = [t \in Threads |-> "none"]
    /\ t_requested = [t \in Threads |-> 0]
    /\ t_report = [t \in Threads |-> 0]
    /\ PropagationInit

\* No client is registered: the lists are empty and the accounting is zero.
NoClientsInit ==
    /\ my_arenas_list_mutex = NoThread
    /\ my_total_demand = 0
    /\ my_priority_level_demand = [l \in Levels |-> 0]
    /\ my_num_workers_requested = 0
    /\ my_mandatory_num_requested = 0
    /\ my_arenas = [l \in Levels |-> <<>>]
    /\ my_arenas_aba_epoch = 0
    /\ client_state = [a \in Clients |-> "free"]
    /\ m_global_concurrency_mode = [a \in Clients |-> FALSE]
    /\ my_num_workers_allotted = [a \in Clients |-> 0]
    /\ my_is_top_priority = [a \in Clients |-> FALSE]
    /\ my_adjust_demand_target_epoch = [a \in Clients |-> 0]
    /\ my_adjust_demand_current_epoch = [a \in Clients |-> 0]
    /\ arena_priority_level = [a \in Clients |-> 0]
    /\ arena_aba_epoch = [a \in Clients |-> 0]
    /\ arena_num_workers_requested = [a \in Clients |-> 0]
    /\ job_count_estimate = 0
    /\ tickets = {}
    /\ estimate_under_lock = FALSE
    /\ assert_failed = {}

\* The market has been created by one public global_market call whose soft
\* limit came out as soft; no client is registered yet.
Init ==
    /\ ThreadsInit
    /\ NoClientsInit
    /\ CalcInit
    /\ theMarketMutex = NoThread
    /\ theMarket = 1
    /\ instances = 1
    /\ my_ref_count = 1
    /\ my_public_ref_count = 1
    /\ close_requested = {}
    /\ my_join_workers = [i \in 1 .. MaxInstances |-> FALSE]
    /\ default_num_threads = 1
    /\ my_num_workers_hard_limit = calc_workers_hard_limit(0, 1)
    /\ my_num_workers_soft_limit \in 0 .. MaxSoftLimit
    /\ my_workers_soft_limit_to_report = my_num_workers_soft_limit
    /\ warnings = 0
    /\ public_handles = 1
    /\ private_handles = 0

\* The operations of a live market on its clients; clients are created until
\* my_arenas_aba_epoch reaches MaxAbaEpoch.
Next ==
    \/ \E t \in Threads, a \in Clients, level \in Levels, garbage \in 0 .. MaxGarbage :
           my_arenas_aba_epoch < MaxAbaEpoch /\ create_client(t, a, level, garbage)
    \/ \E t \in Threads : destroy_client(t)
    \/ \E t \in Threads : adjust_demand(t)
    \/ \E t \in Threads : enable_mandatory_concurrency(t)
    \/ \E t \in Threads : mandatory_concurrency_disable(t)
    \/ \E t \in Threads : set_active_num_workers(t)
    \/ \E t \in Threads : release_body(t)
    \/ \E t \in Threads : try_destroy_arena(t)

Spec == Init /\ [][Next]_vars

\* The life of the clients alone: registration, demand, detach and the reuse
\* of the address of a deleted client, until my_arenas_aba_epoch reaches
\* MaxReuseEpoch.
NextReuse ==
    \/ \E t \in Threads, a \in Clients, level \in Levels, garbage \in 0 .. MaxGarbage :
           my_arenas_aba_epoch < MaxReuseEpoch /\ create_client(t, a, level, garbage)
    \/ \E t \in Threads : adjust_demand(t)
    \/ \E t \in Threads : try_destroy_arena(t)
    \/ \E t \in Threads : destroy_client(t)

SpecReuse == Init /\ [][NextReuse]_vars

\* The process before the first global_market call.
NoMarketInit ==
    /\ theMarketMutex = NoThread
    /\ theMarket = 0
    /\ instances = 0
    /\ my_ref_count = 0
    /\ my_public_ref_count = 0
    /\ close_requested = {}
    /\ my_join_workers = [i \in 1 .. MaxInstances |-> FALSE]
    /\ my_num_workers_hard_limit = 0
    /\ my_num_workers_soft_limit = 0
    /\ my_workers_soft_limit_to_report = 0
    /\ warnings = 0
    /\ public_handles = 0
    /\ private_handles = 0

InitLife ==
    /\ ThreadsInit
    /\ NoClientsInit
    /\ NoMarketInit
    /\ CalcInit
    /\ default_num_threads \in 1 .. MaxDefaultThreads

\* The lifetime of the singleton: acquisitions, releases and soft-limit changes.
NextLife ==
    \/ \E t \in Threads : global_market(t)
    \/ \E t \in Threads : release(t)
    \/ \E t \in Threads : set_active_num_workers(t)

SpecLife == InitLife /\ [][NextLife]_vars

\* A thread inside an operation takes its next step: threads are scheduled
\* fairly, and a mutex that is free is eventually obtained.
Continue(t) ==
    /\ pc[t] # "idle"
    /\ (global_market(t) \/ release(t) \/ set_active_num_workers(t))

\* The references of one live market: they are acquired and released, and
\* the last release closes the market.  set_active_num_workers runs as the
\* first public acquisition calls it.
NextWait ==
    \/ \E t \in Threads : theMarket # 0 /\ global_market(t)
    \/ \E t \in Threads : release(t)
    \/ \E t \in Threads : pc[t] # "idle" /\ set_active_num_workers(t)

\* The same under fair scheduling of the threads.
SpecWait == Init /\ [][NextWait]_vars /\ \A t \in Threads : WF_vars(Continue(t))

\* The broadcasts of a live market, the external threads that come and go and
\* the workers that start, until the epoch reaches MaxPropagations.
NextPropagate ==
    \/ bind_child
    \/ \E t \in Threads, new_state \in 1 .. MaxState : store_state(t, new_state)
    \/ \E t \in Threads : propagate_task_group_state(t)
    \/ \E t \in Threads, td \in ExternalThreads : add_external_thread(t, td)
    \/ \E t \in Threads, td \in ExternalThreads : remove_external_thread(t, td)
    \/ claim_worker_slot
    \/ \E i \in WorkerSlots : publish_worker(i)

\* A thread inside adjust_demand takes its next step: threads are scheduled
\* fairly, and a wait_until whose epoch has come returns.
ContinueDemand(t) == adjust_demand_call(t) \/ adjust_demand_done(t)

\* Clients are registered and their demand is adjusted, each client up to
\* MaxEpoch times.
NextDemand ==
    \/ \E t \in Threads, a \in Clients, level \in Levels :
           my_arenas_aba_epoch < MaxAbaEpoch /\ create_client(t, a, level, 0)
    \/ \E t \in Threads : adjust_demand(t)

SpecDemand ==
    Init /\ [][NextDemand]_vars /\ \A t \in Threads : WF_vars(ContinueDemand(t))

\* The process before the first global_market call, with the inputs of the
\* computation of the limits drawn from the values around the branches.
InitCalc ==
    /\ ThreadsInit
    /\ NoClientsInit
    /\ NoMarketInit
    /\ default_num_threads = 1
    /\ calc_in \in [workers_requested : CalcRequested,
                    app_limit : CalcAppLimits,
                    default_threads : CalcDefaultThreads]
    /\ calc_out = NoLimits

NextCalc == calc_limits

SpecCalc == InitCalc /\ [][NextCalc]_vars

\* The live market of Init whose soft limit is 1.
InitPropagate == Init /\ my_num_workers_soft_limit = 1

SpecPropagate == InitPropagate /\ [][NextPropagate]_vars


\* ------------------------------------------------------------- properties

ListLockFree == my_arenas_list_mutex = NoThread

\* effective_soft_limit of the current state: 1 under the mandatory override,
\* my_num_workers_soft_limit otherwise.
EffectiveSoftLimit ==
    IF my_mandatory_num_requested > 0 THEN 1 ELSE my_num_workers_soft_limit

\* The demand of the clients in the set S, and their allotment.
DemandOf(S) == SumOver(arena_num_workers_requested, S)

AllottedOf(S) == SumOver(my_num_workers_allotted, S)

\* C1: whenever no thread holds my_arenas_list_mutex,
\* 0 <= my_num_workers_requested <= effective_soft_limit <= hard limit.
C1_RequestedWithinLimits ==
    ListLockFree =>
        /\ 0 <= my_num_workers_requested
        /\ my_num_workers_requested <= EffectiveSoftLimit
        /\ EffectiveSoftLimit <= my_num_workers_hard_limit

\* C2: whenever the list lock is free, the allotments of the registered
\* clients sum to at most my_num_workers_requested.
C2_AllottedWithinRequested ==
    ListLockFree => AllottedOf(Listed) <= my_num_workers_requested

\* C3: whenever the list lock is free, my_total_demand is the sum of
\* my_priority_level_demand over the levels and the sum of the demands of the
\* registered clients, and my_priority_level_demand[l] is the summed demand of
\* the clients in list l.
C3_DemandSums ==
    ListLockFree =>
        /\ my_total_demand = SumOver(my_priority_level_demand, Levels)
        /\ my_total_demand = DemandOf(Listed)
        /\ \A l \in Levels :
               my_priority_level_demand[l] = DemandOf(SeqToSet(my_arenas[l]))

\* C3 witness: a client has been detached and a client registered at level 1
\* asks for workers.
C3_Witness ==
    /\ ListLockFree
    /\ my_arenas_aba_epoch > 0
    /\ my_priority_level_demand[1] > 0

\* The assertions that rest on "mandatory requests exist only at soft limit 0".
MandatoryAssertions ==
    {"uwr_soft_zero", "ad_soft_zero", "enable_impl_soft_zero", "md_soft_zero",
     "saw_mandatory_zero"}

\* C4: in every state my_mandatory_num_requested > 0 implies
\* my_num_workers_soft_limit = 0, and none of the assertions that rest on it
\* (update_workers_request, adjust_demand, enable_mandatory_concurrency_impl,
\* mandatory_concurrency_disable, set_active_num_workers) has failed.
C4_MandatoryOnlyAtZeroSoftLimit ==
    /\ my_mandatory_num_requested > 0 => my_num_workers_soft_limit = 0
    /\ assert_failed \cap MandatoryAssertions = {}

\* C4 witness: a mandatory request is in force while a concurrent
\* set_active_num_workers is about to raise the soft limit and another thread
\* has passed the unlocked check of enable_mandatory_concurrency.
C4_Witness ==
    /\ my_mandatory_num_requested > 0
    /\ \E t \in Threads : pc[t] = "saw_lock" /\ t_arg[t] > 0
    /\ \E t \in Threads : pc[t] = "em_lock"

\* The clients whose m_global_concurrency_mode is set.
MandatoryClients == {a \in Clients : m_global_concurrency_mode[a]}

\* C5: whenever the list lock is free, my_mandatory_num_requested is the
\* number of clients with m_global_concurrency_mode set, each of them is in a
\* priority list (never detached), and none exists while the soft limit is
\* positive.
C5_MandatorySetCounted ==
    ListLockFree =>
        /\ my_mandatory_num_requested = Cardinality(MandatoryClients)
        /\ \A a \in MandatoryClients :
               /\ client_state[a] = "listed"
               /\ \E l \in Levels : a \in SeqToSet(my_arenas[l])
        /\ my_num_workers_soft_limit > 0 => MandatoryClients = {}

\* C5 witness: one client holds a mandatory request while another has just
\* been detached.
C5_Witness ==
    /\ ListLockFree
    /\ my_mandatory_num_requested = 1
    /\ \E a \in Clients, b \in Clients :
           /\ m_global_concurrency_mode[a]
           /\ client_state[b] = "detached"

\* C6: whenever the list lock is free and my_mandatory_num_requested > 0,
\* my_num_workers_requested = 1, whatever adjust_demand calls there were.
C6_ExactlyOnePermit ==
    (ListLockFree /\ my_mandatory_num_requested > 0) => my_num_workers_requested = 1

\* The threads between the critical section of adjust_demand and the end of
\* their dispatcher call, and those inside the call.
AdjustPending == {t \in Threads : pc[t] \in {"ad_wait", "ad_call"}}

InDispatcherCall == {t \in Threads : pc[t] = "ad_call"}

\* C7: of two adjust_demand calls on the same client the one with the smaller
\* target epoch makes its dispatcher call first, and the other does not begin
\* its call before that call has returned; no two dispatcher calls of
\* adjust_demand for one client overlap.
C7_PerClientFifo ==
    \A t \in AdjustPending, u \in AdjustPending :
        (t # u /\ t_client[t] = t_client[u]) =>
            /\ t_epoch[t] # t_epoch[u]
            /\ ~(t \in InDispatcherCall /\ u \in InDispatcherCall)
            /\ t \in InDispatcherCall => t_epoch[t] < t_epoch[u]

\* C7 witness: a thread is inside the dispatcher call with epoch k while
\* another thread waits with epoch k+1 on the same client.
C7_Witness ==
    \E t \in Threads, u \in Threads :
        /\ pc[t] = "ad_call"
        /\ pc[u] = "ad_wait"
        /\ t_client[t] = t_client[u]
        /\ t_epoch[u] = t_epoch[t] + 1

\* Two dispatcher calls of adjust_demand for different clients overlap.
ConcurrentCallsOnDifferentClients ==
    \E t \in InDispatcherCall, u \in InDispatcherCall : t_client[t] # t_client[u]

\* C8: no thread has called adjust_job_count_estimate while holding
\* my_arenas_list_mutex or theMarketMutex, and no thread about to make the
\* call, or inside it, holds either mutex.
C8_DispatcherOutsideLocks ==
    /\ ~estimate_under_lock
    /\ \A t \in Threads :
           pc[t] \in {"ad_wait", "ad_call", "em_call", "md_call", "saw_call"} =>
               (my_arenas_list_mutex # t /\ theMarketMutex # t)

\* C8 witness: the dispatcher has been told of a change and a thread is
\* inside a further call while another is about to make one.
C8_Witness ==
    /\ job_count_estimate # 0
    /\ \E t \in Threads : pc[t] = "ad_call"
    /\ \E t \in Threads : pc[t] \in {"em_call", "md_call", "saw_call"}

\* The four conditions of a successful try_destroy_arena, read in the state
\* before the call.
Abandoned(a, aba_epoch, priority_level, other_references) ==
    /\ \E i \in 1 .. Len(my_arenas[priority_level]) : my_arenas[priority_level][i] = a
    /\ arena_aba_epoch[a] = aba_epoch
    /\ arena_num_workers_requested[a] = 0
    /\ other_references = 0
    /\ \A u \in Threads : t_client[u] # a

\* C9: try_destroy_arena returns true exactly when the client is found in
\* my_arenas[priority_level] with the epoch of the snapshot, no demand and no
\* references, and then the client is out of the lists and its ticket is
\* removed; in every other case it returns false and the lists, the counters,
\* the clients and the tickets are unchanged; my_arenas_list_mutex is free
\* after the call either way.
C9_TryDestroy ==
    [][\A t \in Threads, a \in Clients, aba_epoch \in 0 .. (MaxReuseEpoch - 1),
          priority_level \in Levels, other_references \in 0 .. 1 :
           try_destroy_arena_body(t, a, aba_epoch, priority_level, other_references) =>
               /\ my_arenas_list_mutex' = NoThread
               /\ IF Abandoned(a, aba_epoch, priority_level, other_references)
                  THEN /\ t_ret'[t] = 1
                       /\ client_state'[a] = "detached"
                       /\ \A l \in Levels : a \notin SeqToSet(my_arenas'[l])
                       /\ a \notin tickets'
                  ELSE /\ t_ret'[t] = 0
                       /\ pc'[t] = "idle"
                       /\ UNCHANGED <<marketVars, clientVars, arenaVars, dispVars>>
      ]_vars

\* C9 witness: a client registered at the address of a deleted one, with a
\* newer epoch, has been detached in its turn.
C9_Witness ==
    \E t \in Threads :
        /\ pc[t] = "td_true"
        /\ t_ret[t] = 1
        /\ client_state[t_client[t]] = "detached"
        /\ arena_aba_epoch[t_client[t]] > 0
        /\ ListLockFree

\* The threads that work on a market instance they hold a reference to.
HoldsReference(t) ==
    pc[t] \in {"gm_warn", "gm_warn_cas", "saw_enter", "saw_lock", "saw_call",
               "rel_enter", "rel_yield", "rel_reacquire"}

\* C10: in every state my_public_ref_count <= my_ref_count; my_ref_count is
\* zero only with my_public_ref_count zero and theMarket cleared; an instance
\* whose connection was asked to close is not theMarket, and no thread holds a
\* reference to it.
C10_ReferenceCounts ==
    /\ 0 <= my_public_ref_count
    /\ my_public_ref_count <= my_ref_count
    /\ my_ref_count = 0 => (my_public_ref_count = 0 /\ theMarket = 0)
    /\ \A i \in close_requested :
           /\ theMarket # i
           /\ \A t \in Threads : HoldsReference(t) => t_this[t] # i
    /\ \A t \in Threads : pc[t] = "rel_close" => theMarket # t_this[t]
    /\ "release_no_public_left" \notin assert_failed

\* C10 witness: the first instance was closed and a second one is live, with
\* a private or internal reference next to its public ones.
C10_Witness ==
    /\ close_requested # {}
    /\ theMarket # 0
    /\ my_public_ref_count > 0
    /\ my_public_ref_count < my_ref_count

\* A section of release(true, true) by thread t: the call itself, or the
\* section that follows the reacquisition of the mutex after the wait.
BlockingSection(t) ==
    \/ release_enter(t, TRUE, TRUE)
    \/ pc[t] = "rel_reacquire" /\ t_blocking[t] /\ release_body(t)

\* A step in which thread t returns from release to the application.
ReleaseReturns(t) ==
    /\ \/ \E is_public \in BOOLEAN, blocking_terminate \in BOOLEAN :
              release_enter(t, is_public, blocking_terminate)
       \/ release_body(t)
       \/ release_close(t)
    /\ pc'[t] = "idle"

\* C11: a blocking release that is the only public reference while other
\* references exist decrements nothing and yields; with another public handle
\* outstanding it decrements and returns false without teardown; only with
\* my_ref_count = 1 does it clear theMarket and go on to request the close with
\* my_join_workers set; release returns true on that path only.
C11_BlockingTerminate ==
    [][\A t \in Threads :
        /\ BlockingSection(t) =>
             IF my_public_ref_count = 1 /\ my_ref_count > 1
             THEN /\ pc'[t] = "rel_yield"
                  /\ UNCHANGED <<my_ref_count, my_public_ref_count, theMarket,
                                 close_requested>>
             ELSE IF my_public_ref_count > 1
             THEN /\ pc'[t] = "idle" /\ t_ret'[t] = 0
                  /\ my_public_ref_count' = my_public_ref_count - 1
                  /\ my_public_ref_count' >= 1
                  /\ my_ref_count' = my_ref_count - 1
                  /\ UNCHANGED <<theMarket, close_requested>>
             ELSE /\ my_ref_count = 1 /\ my_public_ref_count = 1
                  /\ my_ref_count' = 0 /\ my_public_ref_count' = 0
                  /\ theMarket # 0 /\ theMarket' = 0
                  /\ pc'[t] = "rel_close" /\ t_blocking'[t]
                  /\ t_this'[t] = theMarket
                  /\ UNCHANGED close_requested
        /\ release_close(t) =>
             /\ close_requested' = close_requested \cup {t_this[t]}
             /\ my_join_workers'[t_this[t]] = t_blocking[t]
             /\ theMarket # t_this[t]
        /\ (ReleaseReturns(t) /\ t_ret'[t] = 1) =>
             (pc[t] = "rel_close" /\ t_blocking[t])
        /\ (release_close(t) /\ t_blocking[t] /\ t_caller[t] # "gm") =>
             (pc'[t] = "idle" /\ t_ret'[t] = 1)
      ]_vars

\* C11 witness: the blocking release has waited, the other references are
\* gone, and the thread is about to take the mutex again for the teardown.
C11_Witness ==
    \E t \in Threads :
        /\ pc[t] = "rel_reacquire" /\ t_blocking[t]
        /\ my_ref_count = 1 /\ my_public_ref_count = 1
        /\ theMarket = t_this[t]

\* Thread t is inside a release(true, true) called by the application.
InBlockingRelease(t) ==
    /\ pc[t] \in {"rel_yield", "rel_reacquire", "rel_close"}
    /\ t_blocking[t]

\* The holders of references release them: a release of a handed-out
\* reference that stays possible is eventually called.
HoldersRelease ==
    WF_vars(\E t \in Threads, is_public \in BOOLEAN : release_enter(t, is_public, FALSE))

\* From some point on no reference is acquired any more.
NoNewReferencesForever == <>[][my_ref_count' <= my_ref_count]_vars

\* C12: under fair scheduling, if the holders of references release them and
\* references are not acquired forever, a blocking release returns.
C12_BlockingReleaseReturns ==
    (HoldersRelease /\ NoNewReferencesForever) =>
        \A t \in Threads : InBlockingRelease(t) ~> (pc[t] = "idle")

\* C12 witness: a blocking release is yielding with the mutex free while a
\* new public reference has raised my_public_ref_count above 1.
C12_Witness ==
    \E t \in Threads :
        /\ pc[t] = "rel_yield" /\ t_blocking[t]
        /\ theMarketMutex = NoThread
        /\ my_public_ref_count > 1

\* C13: between two stores of my_workers_soft_limit_to_report by
\* set_active_num_workers, the "request ignored" warning is printed at most
\* once, however the global_market calls interleave.
C13_WarnedAtMostOnce == warnings <= 1

\* The clients that are in mandatory mode after the step, and the first of
\* them in the iteration order of the allotment engine.
FlaggedAfter(list) == SelectSeq(list, LAMBDA b : m_global_concurrency_mode'[b])

\* C14: when enable_mandatory_concurrency(a) takes effect (soft limit 0, a not
\* yet in mandatory mode), on return my_num_workers_requested = 1, a is in
\* mandatory mode, my_mandatory_num_requested has grown by one, the first
\* client in mandatory mode is allotted 1 (so a is, when it is the only one)
\* and every other client is allotted 0.
C14_EnableMandatoryAllots ==
    [][\A t \in Threads :
        (/\ enable_mandatory_concurrency_body(t)
         /\ my_num_workers_soft_limit = 0
         /\ ~m_global_concurrency_mode[t_client[t]]) =>
            LET a == t_client[t]
                flagged == FlaggedAfter(AllClients(my_arenas', 0))
            IN  /\ my_num_workers_requested' = 1
                /\ m_global_concurrency_mode'[a]
                /\ my_mandatory_num_requested' = my_mandatory_num_requested + 1
                /\ Len(flagged) >= 1
                /\ \A b \in Listed :
                       my_num_workers_allotted'[b] = IF b = flagged[1] THEN 1 ELSE 0
      ]_vars

\* The demand of the first i clients of a list.
PrefixDemand(list, i) ==
    SumOver([j \in 1 .. Len(list) |-> arena_num_workers_requested[list[j]]], 1 .. i)

\* The share of client b of a budget handed out in priority order and, within
\* a level, in proportion to the demands, rounding the running total down.
ProportionalShare(b, budget) ==
    LET l == arena_priority_level[b]
        list == my_arenas[l]
        i == CHOOSE j \in 1 .. Len(list) : list[j] = b
        level_demand == my_priority_level_demand[l]
        above == SumOver(my_priority_level_demand, 0 .. (l - 1))
        per_priority == Min(level_demand, Max(0, budget - above))
    IN  (PrefixDemand(list, i) * per_priority) \div level_demand
          - (PrefixDemand(list, i - 1) * per_priority) \div level_demand

\* C15: set_active_num_workers(n), n > 0, at soft limit 0 with clients in
\* mandatory mode: the disable loop leaves no client in mandatory mode before
\* the limit is stored, and no state has a positive soft limit with a flag
\* set; after the section my_mandatory_num_requested = 0,
\* my_num_workers_requested = min(my_total_demand, n) and every client with
\* demand holds its proportional share of that budget.
C15_LeaveMandatoryBeforeRaise ==
    [][/\ my_num_workers_soft_limit' > 0 =>
              \A a \in Clients : ~m_global_concurrency_mode'[a]
       /\ \A t \in Threads, enqueued \in SUBSET Clients :
            (/\ set_active_num_workers_body(t, enqueued)
             /\ t_arg[t] > 0
             /\ my_num_workers_soft_limit = 0
             /\ my_mandatory_num_requested > 0) =>
               LET n == t_arg[t]
                   before_store == DisableAll(Cur, AllClients(my_arenas, 0), 1)
               IN  /\ before_store.soft = 0
                   /\ before_store.mand = 0
                   /\ \A a \in Clients : ~before_store.gcm[a]
                   /\ my_num_workers_soft_limit' = n
                   /\ my_mandatory_num_requested' = 0
                   /\ my_total_demand' = my_total_demand
                   /\ my_num_workers_requested' = Min(my_total_demand, n)
                   /\ \A b \in Listed :
                          arena_num_workers_requested[b] > 0 =>
                              my_num_workers_allotted'[b] =
                                  ProportionalShare(b, Min(my_total_demand, n))
      ]_vars

\* C15 witness: a thread saw client A in mandatory mode and is about to leave
\* it, while set_active_num_workers has raised the limit from 0: A's flag is
\* clear and A holds a share of the new budget.
C15_Witness ==
    \E t \in Threads, u \in Threads :
        /\ pc[t] = "saw_call"
        /\ my_num_workers_soft_limit > 0
        /\ pc[u] = "md_lock"
        /\ ~m_global_concurrency_mode[t_client[u]]
        /\ my_num_workers_allotted[t_client[u]] > 0
        /\ my_total_demand > my_num_workers_soft_limit

\* C16: is_top_priority is true only for clients of the highest non-empty
\* priority level: no registered client carries the flag while a level of
\* higher priority (smaller index) has demand.
C16_TopPriorityOnlyAtTopLevel ==
    ListLockFree =>
        \A a \in Listed :
            my_is_top_priority[a] =>
                \A l \in Levels :
                    l < arena_priority_level[a] => my_priority_level_demand[l] = 0

\* A step of adjust_demand by thread t that ran the allotment engine: the
\* request changed the demand and there is demand left.
EngineStep(t) ==
    /\ \E a \in Clients, delta \in {-1, 1}, mandatory \in BOOLEAN, absorbed \in BOOLEAN :
           adjust_demand_body(t, a, delta, mandatory, absorbed)
    /\ my_adjust_demand_target_epoch' # my_adjust_demand_target_epoch
    /\ my_total_demand' > 0

\* What update_allotment was given in that step, and its loop state after the
\* levels up to l.
EngineInput ==
    [Cur EXCEPT !.dem = arena_num_workers_requested',
                !.total = my_total_demand',
                !.pdem = my_priority_level_demand']

RECURSIVE EngineAfterLevel(_, _)
EngineAfterLevel(l, max_workers) ==
    IF l < 0
    THEN [m |-> EngineInput, assigned |-> 0, carry |-> 0,
          max_priority_level |-> num_priority_levels]
    ELSE LET before == SumOver(my_priority_level_demand', 0 .. (l - 1))
             per_priority == Min(my_priority_level_demand'[l],
                                 Max(0, max_workers - before))
         IN  AllotList(EngineAfterLevel(l - 1, max_workers), my_arenas[l], 1, l,
                       per_priority, max_workers)

\* C17: on the non-mandatory path (soft limit > 0, demand > 0) a run of the
\* allotment engine leaves, at every level l, allotments that sum to
\* per_priority = min(priority demand of l, budget left), a zero carry, every
\* allotment between 0 and the demand of its client, B = min(total demand,
\* effective soft limit) workers assigned in all, and no failed assertion.
C17_EngineSharesExactly ==
    [][\A t \in Threads :
        (EngineStep(t) /\ my_num_workers_soft_limit > 0) =>
            LET B == Min(my_total_demand', effective_soft_limit(EngineInput))
            IN  /\ \A l \in Levels :
                       LET before == SumOver(my_priority_level_demand', 0 .. (l - 1))
                           per_priority == Min(my_priority_level_demand'[l],
                                               Max(0, B - before))
                       IN  /\ SumOver(my_num_workers_allotted', SeqToSet(my_arenas'[l]))
                                 = per_priority
                           /\ EngineAfterLevel(l, B).carry = 0
                /\ \A b \in Listed :
                       /\ 0 <= my_num_workers_allotted'[b]
                       /\ my_num_workers_allotted'[b] <= arena_num_workers_requested'[b]
                /\ EngineAfterLevel(num_priority_levels - 1, B).assigned = B
                /\ assert_failed' \cap {"allotted_le_requested", "assigned_in_budget"} = {}
      ]_vars

\* C18: the budget is consumed in priority order: after a run of the engine a
\* client holds a non-zero allotment only if every level of higher priority
\* holds its full priority demand.
C18_PriorityPreemption ==
    [][\A t \in Threads :
        EngineStep(t) =>
            \A b \in Listed :
                my_num_workers_allotted'[b] > 0 =>
                    \A l \in Levels :
                        l < arena_priority_level[b] =>
                            SumOver(my_num_workers_allotted', SeqToSet(my_arenas'[l]))
                                >= my_priority_level_demand'[l]
      ]_vars

\* C19: my_arenas_aba_epoch never decreases, and every try_destroy_arena that
\* returns true increases it, whatever the aba_epoch of the detached client.
C19_EveryDetachBumpsEpoch ==
    [][/\ my_arenas_aba_epoch' >= my_arenas_aba_epoch
       /\ \A t \in Threads :
            (pc[t] = "idle" /\ pc'[t] = "td_true") =>
                my_arenas_aba_epoch' > my_arenas_aba_epoch
      ]_vars


\* Thread t is between the epoch bump and the return of a broadcast.
Broadcasting(t) == pc[t] \in {"pts_workers", "pts_masters"}

\* C20: propagate_task_group_state returns false exactly when the field of
\* src, read again under the propagation mutex, is not new_state, and then
\* the epoch and every thread_data are as they were. A call that proceeds
\* advances the epoch exactly once; until it returns my_masters does not
\* change, no other call broadcasts and the epoch does not move again; when
\* it returns true every worker published below my_first_unused_worker_idx
\* and every member of my_masters at the moment it took the mutex has
\* received new_state.
C20_PropagateTaskGroupState ==
    [][\A t \in Threads :
        /\ (pc[t] = "pts_lock" /\ pc'[t] # "pts_lock") =>
              /\ (pc'[t] = "idle" /\ t_ret'[t] = 0) <=> (src_state # pts[t].new_state)
              /\ pc'[t] = "idle" =>
                    /\ the_context_state_propagation_epoch' =
                           the_context_state_propagation_epoch
                    /\ td_state' = td_state
              /\ pc'[t] # "idle" =>
                    /\ Broadcasting(t)'
                    /\ the_context_state_propagation_epoch' =
                           the_context_state_propagation_epoch + 1
        /\ (pc[t] \in {"pts_enter", "pts_masters"} /\ pc'[t] = "idle") =>
              t_ret'[t] = 1
        /\ Broadcasting(t) =>
              /\ my_masters' = my_masters
              /\ the_context_state_propagation_epoch' =
                     the_context_state_propagation_epoch
              /\ \A u \in Threads \ {t} : ~Broadcasting(u) /\ ~Broadcasting(u)'
              /\ \A td \in ThreadData :
                     td_state'[td] # td_state[td] =>
                         td_state'[td] = pts[t].new_state
        /\ (pc[t] = "pts_masters" /\ pc'[t] = "idle") =>
              /\ pts[t].registered_at_lock \subseteq pts[t].received
              /\ \A td \in pts[t].registered_at_lock :
                     td_state[td] = pts[t].new_state
              /\ the_context_state_propagation_epoch = pts[t].epoch_at_lock + 1
      ]_vars

\* One call is about to return true after a broadcast that reached a worker
\* and an external thread and passed a slot not yet published; the other
\* call has backed down.
C20_Witness ==
    \E t \in Threads, u \in Threads :
        /\ t # u
        /\ pc[t] = "pts_masters" /\ pts[t].it > Len(my_masters)
        /\ pts[t].received \cap ExternalThreads # {}
        /\ pts[t].received \ ExternalThreads # {}
        /\ Cardinality(pts[t].received \ ExternalThreads) < pts[t].num_workers
        /\ pc[u] = "idle" /\ t_ret[u] = 0 /\ pts[u].new_state # 0


\* The soft limit as the specification states it.
StatedSoftLimit(requested, hard, L, default_threads) ==
    IF L > 0 THEN Min(hard - 1, L - 1)
    ELSE Min(hard - 1, Max(default_threads - 1, requested))

\* C21: the soft limit computed for a new instance is min(hard - 1, L - 1)
\* when the application limit L is positive and
\* min(hard - 1, max(default_threads - 1, requested)) otherwise, where hard is
\* max(factor * default_threads, 256, L) with factor 4 up to 128 default
\* threads and 2 above; it is strictly below the hard limit.
C21_SoftLimitBelowHardLimit ==
    calc_out.done =>
        LET factor == IF calc_in.default_threads <= 128 THEN 4 ELSE 2
            hard == Max(Max(factor * calc_in.default_threads, 256), calc_in.app_limit)
        IN  /\ calc_out.workers_hard_limit = hard
            /\ calc_out.workers_soft_limit =
                   StatedSoftLimit(calc_in.workers_requested, hard,
                                   calc_in.app_limit, calc_in.default_threads)
            /\ calc_out.workers_soft_limit < calc_out.workers_hard_limit

\* Limits were computed for more workers than the hard limit allows, with no
\* application limit and a large default number of threads.
C21_Witness ==
    /\ calc_out.done
    /\ calc_in.app_limit = 0
    /\ calc_in.default_threads > LargeThreadNumber
    /\ calc_in.workers_requested >= calc_out.workers_hard_limit
    /\ calc_out.workers_soft_limit = calc_out.workers_hard_limit - 1

\* C22: the critical section of mandatory_concurrency_disable(a) clears the
\* flag of a and decrements my_mandatory_num_requested exactly when the flag
\* is still set and the arena has no enqueued tasks; when the flag is off or
\* the arena has enqueued tasks the call returns with the flags,
\* my_mandatory_num_requested, my_num_workers_requested and every allotment
\* as they were and without a call to the dispatcher, whatever the other
\* thread does in between.
C22_DisableOnlyWhenIdle ==
    [][\A t \in Threads, has_enqueued_tasks \in BOOLEAN :
           mandatory_concurrency_disable_body(t, has_enqueued_tasks) =>
               LET a == t_client[t] IN
               IF m_global_concurrency_mode[a] /\ ~has_enqueued_tasks
               THEN /\ ~m_global_concurrency_mode'[a]
                    /\ my_mandatory_num_requested' = my_mandatory_num_requested - 1
               ELSE /\ pc'[t] = "idle"
                    /\ UNCHANGED <<m_global_concurrency_mode,
                                   my_mandatory_num_requested,
                                   my_num_workers_requested,
                                   my_num_workers_allotted, dispVars>>
      ]_vars

\* One call has cleared the flag of a client and is about to tell the
\* dispatcher; the other call on the same client passed the check outside
\* the lock while the flag was set and will find it off.
C22_Witness ==
    \E t \in Threads, u \in Threads :
        /\ pc[t] = "md_call" /\ pc[u] = "md_lock"
        /\ t_client[u] = t_client[t]
        /\ ~m_global_concurrency_mode[t_client[t]]

\* No operation is in flight.
Quiescent == \A t \in Threads : pc[t] = "idle"

\* C23: whenever no operation is in flight, the deltas passed to
\* adjust_job_count_estimate by adjust_demand, enable_mandatory_concurrency,
\* mandatory_concurrency_disable and set_active_num_workers add up to
\* my_num_workers_requested, whatever the interleaving of these operations
\* and try_destroy_arena has been.
C23_EstimateTracksRequest ==
    Quiescent => job_count_estimate = my_num_workers_requested

\* At rest after a client in mandatory mode was detached: the request of one
\* worker made for it stands, and the dispatcher was told of it.
C23_Witness ==
    /\ Quiescent
    /\ job_count_estimate = 1
    /\ my_mandatory_num_requested = 0
    /\ my_total_demand = 0
    /\ my_num_workers_soft_limit = 0
    /\ my_arenas_aba_epoch > 0

\* C24: when the critical section of set_active_num_workers(0) finds a
\* soft limit that is not 0, it leaves the soft limit 0, every registered
\* client whose arena has enqueued tasks in mandatory mode and no other,
\* my_mandatory_num_requested equal to the number of these clients and
\* my_num_workers_requested 1 if there is one and 0 if there is none; a call
\* of set_active_num_workers with the soft limit of the market changes
\* nothing of the market or its clients.
C24_ZeroLimitEntersMandatory ==
    [][/\ \A t \in Threads, enqueued \in SUBSET Clients :
              ( /\ set_active_num_workers_body(t, enqueued)
                /\ t_arg[t] = 0
                /\ my_num_workers_soft_limit # 0 ) =>
                  /\ my_num_workers_soft_limit' = 0
                  /\ \A a \in Listed : m_global_concurrency_mode'[a] = (a \in enqueued)
                  /\ my_mandatory_num_requested' = Cardinality(enqueued)
                  /\ my_num_workers_requested' = IF enqueued # {} THEN 1 ELSE 0
       /\ \A t \in Threads, soft_limit \in 0 .. MaxSoftLimit :
              ( /\ set_active_num_workers_check(t, soft_limit)
                /\ pc[t] = "idle"
                /\ soft_limit = my_num_workers_soft_limit ) =>
                  /\ pc'[t] = "idle"
                  /\ UNCHANGED <<lifeVars, my_arenas_list_mutex, marketVars,
                                 clientVars, arenaVars, dispVars>>
      ]_vars

\* set_active_num_workers(0) has left its critical section with two clients
\* registered, one of them in mandatory mode, and the request lowered from 2
\* to 1: the limit it found was not 0.
C24_Witness ==
    \E t \in Threads :
        /\ pc[t] = "saw_call"
        /\ t_delta[t] = -1
        /\ my_num_workers_soft_limit = 0
        /\ my_num_workers_requested = 1
        /\ my_mandatory_num_requested = 1
        /\ Cardinality(Listed) = 2

\* Thread t is inside adjust_demand, past the critical section.
InAdjustDemand(t) == pc[t] \in {"ad_wait", "ad_call"}

\* C25: under fair scheduling every adjust_demand call returns; in every
\* state my_adjust_demand_current_epoch of a client is at most its
\* my_adjust_demand_target_epoch, and they are equal when no operation is in
\* flight.
C25_AdjustDemandReturns ==
    /\ [](\A a \in Clients :
              my_adjust_demand_current_epoch[a] <= my_adjust_demand_target_epoch[a])
    /\ []((\A t \in Threads : pc[t] = "idle") =>
              \A a \in Clients :
                  my_adjust_demand_current_epoch[a] = my_adjust_demand_target_epoch[a])
    /\ \A t \in Threads : InAdjustDemand(t) ~> (pc[t] = "idle")

\* Two calls on one client are past the critical section: the second waits
\* for the epoch the first has yet to publish.
C25_Witness ==
    \E t \in Threads, u \in Threads :
        /\ pc[t] = "ad_call" /\ pc[u] = "ad_wait"
        /\ t_client[t] = t_client[u]
        /\ t_epoch[u] = t_epoch[t] + 1
        /\ my_adjust_demand_current_epoch[t_client[t]] = t_epoch[t]

====
